---- MODULE Spec2Model ----
(***************************************************************************)
(* Model of the ESP32 simulator runtime: Engine (run-loop scheduler),      *)
(* ArduinoParser (statement executor) and PinManager (pin state model).    *)
(*                                                                         *)
(* JavaScript is single threaded: a timer callback or a UI handler runs,   *)
(* with every microtask it queues, before the next one starts.  The        *)
(* variable cur holds the run (an invocation of Engine.start) whose        *)
(* continuation is executing; host calls, timers and the clock move only   *)
(* while cur = 0.                                                          *)
(*                                                                         *)
(* Specifications over the same state:                                     *)
(*   Spec         the run loop: start, stop, reset, two sketches           *)
(*   SpecSketch   one sketch that prints and writes pins, at two speeds    *)
(*   SpecWire     peripherals registered and removed while a sketch runs   *)
(*   SpecPins     the calls of PinManager, with subscribers                *)
(*   SpecCircuit  exportCircuit and importCircuit                          *)
(***************************************************************************)
EXTENDS Integers, Sequences, FiniteSets, TLC

\* ---------------------------------------------------------------- bounds
MaxClock == 2        \* host time (ms) explored
MaxRuns == 2         \* accepted start() calls explored
MaxCalls == 3        \* calls to the pin manager explored in SpecPins
MaxListeners == 2    \* subscriptions to pin changes explored
MaxParts == 2        \* components, and wires, of an exported circuit

\* ------------------------------------------------------------- pin table
\* A part of PinManager.initPins' gpio list: 2 (ADC), 5 (neither), 25 (ADC+DAC).
Gpios == {"2", "5", "25"}
AdcPins == {"2", "25"}
DacPins == {"25"}
Rails == {"3V3", "GND", "VIN"}
PinIds == Gpios \cup Rails

NoConn == [componentId |-> "", pinName |-> ""]

GpioPin(pin) ==
    [number |-> pin, mode |-> "INPUT", value |-> 0, analogValue |-> 0,
     pwmValue |-> 0, isADC |-> pin \in AdcPins, isDAC |-> pin \in DacPins,
     connected |-> NoConn]

RailPin(pin) ==
    [number |-> pin, mode |-> "POWER",
     value |-> IF pin = "GND" THEN 0 ELSE 1, connected |-> NoConn]

\* PinManager.initPins: every entry of this.pins is assigned a fresh record.
initPins == [pin \in PinIds |-> IF pin \in Gpios THEN GpioPin(pin) ELSE RailPin(pin)]

\* Object.keys(this.pins): integer-like keys ascending, then the others in
\* insertion order.
PinKeys == <<"2", "5", "25", "3V3", "GND", "VIN">>

\* this.pins is created as {} and so inherits the members of
\* Object.prototype: this.pins["constructor"] is the function Object, which
\* is truthy and takes properties like any object.  A pin table is kept as
\* the lookup this.pins[key] sees it: the own entries, and each inherited
\* member with the pin fields written to it so far (none at first).
ProtoKeys == {"constructor"}
Inherited == [key \in ProtoKeys |-> [inherited |-> TRUE]]

\* constructor(): this.pins = {}; this.listeners = []; this.initPins()
newPins == initPins @@ Inherited

\* if (this.pins[pin])
Known(ps, pin) == pin \in DOMAIN ps

\* obj.f = v: the property is created when the object does not have it.
SetField(obj, f, v) ==
    IF f \in DOMAIN obj THEN [obj EXCEPT ![f] = v]
    ELSE [g \in DOMAIN obj \cup {f} |-> IF g = f THEN v ELSE obj[g]]

\* Math.max(lo, Math.min(hi, v))
Clamp(lo, hi, v) == IF v < lo THEN lo ELSE IF v > hi THEN hi ELSE v

\* PinManager.pinMode / digitalWrite: the new table and the pins notified.
\* (PM_pinMode_mut: the mode is stored and nobody is notified.)
PM_pinMode_mut(ps, pin, mode) ==
    IF Known(ps, pin)
    THEN [pins |-> [ps EXCEPT ![pin] = SetField(@, "mode", mode)],
          notified |-> <<>>]
    ELSE [pins |-> ps, notified |-> <<>>]
PM_pinMode(ps, pin, mode) ==
    IF Known(ps, pin)
    THEN [pins |-> [ps EXCEPT ![pin] = SetField(@, "mode", mode)],
          notified |-> <<pin>>]
    ELSE [pins |-> ps, notified |-> <<>>]

PM_digitalWrite(ps, pin, value) ==
    IF Known(ps, pin)
    THEN [pins |-> [ps EXCEPT ![pin] =
                       SetField(@, "value", IF value # 0 THEN 1 ELSE 0)],
          notified |-> <<pin>>]
    ELSE [pins |-> ps, notified |-> <<>>]

\* PinManager.analogWrite: the duty is clamped, the digital value follows
\* the unclamped argument.
PwmMax == 255
\* (PM_analogWrite_mut: the duty is stored as given.)
PM_analogWrite_mut(ps, pin, value) ==
    IF Known(ps, pin)
    THEN [pins |-> [ps EXCEPT ![pin] =
                       SetField(SetField(@, "pwmValue", value),
                                "value", IF value > 0 THEN 1 ELSE 0)],
          notified |-> <<pin>>]
    ELSE [pins |-> ps, notified |-> <<>>]
PM_analogWrite(ps, pin, value) ==
    IF Known(ps, pin)
    THEN [pins |-> [ps EXCEPT ![pin] =
                       SetField(SetField(@, "pwmValue", Clamp(0, PwmMax, value)),
                                "value", IF value > 0 THEN 1 ELSE 0)],
          notified |-> <<pin>>]
    ELSE [pins |-> ps, notified |-> <<>>]

\* PinManager.setAnalogValue: the ADC reading is clamped; nobody is notified.
AdcMax == 4095
PM_setAnalogValue(ps, pin, value) ==
    IF Known(ps, pin)
    THEN [ps EXCEPT ![pin] = SetField(@, "analogValue", Clamp(0, AdcMax, value))]
    ELSE ps

\* (PM_connectPin_mut: the two arguments are stored in each other's place.)
PM_connectPin_mut(ps, pin, componentId, pinName) ==
    IF Known(ps, pin)
    THEN [ps EXCEPT ![pin] = SetField(@, "connected",
              [componentId |-> pinName, pinName |-> componentId])]
    ELSE ps
PM_connectPin(ps, pin, componentId, pinName) ==
    IF Known(ps, pin)
    THEN [ps EXCEPT ![pin] = SetField(@, "connected",
              [componentId |-> componentId, pinName |-> pinName])]
    ELSE ps

PM_disconnectPin(ps, pin) ==
    IF Known(ps, pin) THEN [ps EXCEPT ![pin] = SetField(@, "connected", NoConn)]
    ELSE ps

\* A value a read returns: a number, or undefined.
Num(n) == [t |-> "number", n |-> n]
Undefined == [t |-> "undefined", n |-> 0]

\* PinManager.digitalRead: the value property of what the lookup finds.
PM_digitalRead(ps, pin) ==
    IF Known(ps, pin)
    THEN (IF "value" \in DOMAIN ps[pin] THEN Num(ps[pin].value) ELSE Undefined)
    ELSE Num(0)

\* PinManager.analogRead: this.pins[pin].analogValue || 0
PM_analogRead(ps, pin) ==
    IF Known(ps, pin) /\ "analogValue" \in DOMAIN ps[pin]
    THEN Num(ps[pin].analogValue)
    ELSE Num(0)

\* PinManager.reset: initPins(), then notify every key.  initPins assigns
\* the own entries; what the table inherits is not touched.
\* (PM_reset_mut: the notifications without initPins().)
PM_reset_mut(ps) == [pins |-> ps, notified |-> PinKeys]
PM_reset(ps) == [pins |-> initPins @@ ps, notified |-> PinKeys]

\* PinManager.notify(pin) after a call left the table ps: every listener,
\* in the order of this.listeners, is called with the pin and its entry.
\* (notify_mut: only the first listener is called.)
notify_mut(ls, ps, pin) ==
    IF ls = <<>> THEN <<>> ELSE <<[cb |-> ls[1], pin |-> pin, state |-> ps[pin]]>>
notify(ls, ps, pin) ==
    [j \in 1..Len(ls) |-> [cb |-> ls[j], pin |-> pin, state |-> ps[pin]]]

\* The listener calls of a handler that notified the pins of pinSeq, in order.
RECURSIVE notifyAll(_, _, _)
notifyAll(ls, ps, pinSeq) ==
    IF pinSeq = <<>> THEN <<>>
    ELSE notify(ls, ps, Head(pinSeq)) \o notifyAll(ls, ps, Tail(pinSeq))


\* ---------------------------------------------------------------- sketches
\* A statement is kept in the form ArduinoParser.executeStatement matches it
\* to, with its arguments already evaluated:
\*   delay(ms) | Serial.print("t") | Serial.println("t") |
\*   Serial.printf("%.<prec>f", v) | pinMode(pin, mode) |
\*   digitalWrite(pin, v) | analogWrite(pin, v) | name = v | Serial.begin(n)
\* pinMode keeps its second argument as the token written in the sketch.
Delay(ms) == [k |-> "delay", ms |-> ms]
SerialPrint(t) == [k |-> "print", text |-> t]
SerialPrintln(t) == [k |-> "println", text |-> t]
SerialPrintf(prec) == [k |-> "printf", prec |-> prec]
PinModeStmt(pin, mode) == [k |-> "pinMode", pin |-> pin, mode |-> mode]
DigitalWriteStmt(pin, v) == [k |-> "digitalWrite", pin |-> pin, v |-> v]
AnalogWriteStmt(pin, v) == [k |-> "analogWrite", pin |-> pin, v |-> v]
Assign(name, v) == [k |-> "assign", name |-> name, v |-> v]
SerialBegin == [k |-> "begin"]

NoVars == [n \in {} |-> 0]

\* #define LED 2 / setup: pinMode, delay / loop: blink with one delay.
SketchBlink ==
    [globals |-> [n \in {"LED"} |-> 2],
     setup |-> <<PinModeStmt("2", "OUTPUT"), Delay(2)>>,
     loop |-> <<DigitalWriteStmt("2", 1), Delay(2), DigitalWriteStmt("2", 0)>>]

\* int x = 0; setup sets a pin mode and a PWM duty, prints without a
\* newline and assigns; loop: a delay and a printf whose precision
\* Number.prototype.toFixed rejects (> 100).
SketchFault ==
    [globals |-> [n \in {"x"} |-> 0],
     setup |-> <<PinModeStmt("5", "OUTPUT"), AnalogWriteStmt("5", 300),
                 SerialPrint(<<"a">>), Assign("x", 1)>>,
     loop |-> <<Delay(1), SerialPrintf(101)>>]

Sketches == {SketchBlink, SketchFault}

\* int ledMode = 1; setup: Serial.begin, two prints and a println, a
\* pinMode on the rail "3V3", a pinMode whose mode is a variable name;
\* loop: a delay, a printf, a digitalWrite on the rail "GND", a print and
\* a printf that throws.
SketchIO ==
    [globals |-> [n \in {"ledMode"} |-> 1],
     setup |-> <<SerialBegin, SerialPrint(<<"x">>), SerialPrint(<<"y">>),
                 SerialPrintln(<<"z">>), PinModeStmt("3V3", "OUTPUT"),
                 PinModeStmt("2", "ledMode")>>,
     loop |-> <<Delay(2), SerialPrintf(2), DigitalWriteStmt("GND", 1),
                SerialPrint(<<"p">>), SerialPrintf(101)>>]

\* ArduinoParser.parse: the four tables are rebuilt from the source alone.
parse(code) ==
    [variables |-> code.globals, setupCode |-> code.setup, loopCode |-> code.loop]

\* ------------------------------------------------------------ peripherals
\* Descriptors handed to registerPeripheral: one with a reset hook, one
\* without, the second listing a pin the board does not have.
Descriptors ==
    { [id |-> "led1", connectedPins |-> <<"2">>, type |-> "led", hasReset |-> TRUE],
      [id |-> "dht1", connectedPins |-> <<"5", "99">>, type |-> "dht22",
       hasReset |-> FALSE] }

RECURSIVE connectAll(_, _, _, _)
connectAll(ps, pinSeq, id, type) ==
    IF pinSeq = <<>> THEN ps
    ELSE connectAll(PM_connectPin(ps, Head(pinSeq), id, type), Tail(pinSeq), id, type)

RECURSIVE disconnectAll(_, _)
disconnectAll(ps, pinSeq) ==
    IF pinSeq = <<>> THEN ps
    ELSE disconnectAll(PM_disconnectPin(ps, Head(pinSeq)), Tail(pinSeq))

\* Map.set: an existing key keeps its place, a new key goes last.
MapSet(m, d) ==
    IF \E j \in 1..Len(m) : m[j].id = d.id
    THEN [j \in 1..Len(m) |-> IF m[j].id = d.id THEN d ELSE m[j]]
    ELSE Append(m, d)

MapDelete(m, id) == SelectSeq(m, LAMBDA e : e.id # id)

\* The reset hooks Engine.reset invokes, in Map order.
RECURSIVE resetHooks(_)
resetHooks(m) ==
    IF m = <<>> THEN <<>>
    ELSE (IF Head(m).hasReset THEN <<Head(m).id>> ELSE <<>>) \o resetHooks(Tail(m))

\* ------------------------------------------------------------------ serial
\* Text is a sequence of chunks; concatenation of strings is \o.
ErrPrefix == "[Error] "
SystemMsg == "[System] Serial initialized"
ToFixedMsg == "toFixed() digits argument must be between 0 and 100"

\* Engine.handleSerial: the new pending buffer and the events delivered.
\* (handleSerial_mut: nothing but print text is handled.)
handleSerial_mut(buf, text, type, elapsed) ==
    IF type = "print" THEN [buffer |-> buf \o text, events |-> <<>>]
    ELSE [buffer |-> buf, events |-> <<>>]
\* (handleSerial_keep: the flush leaves the pending text in the buffer.)
handleSerial_keep(buf, text, type, elapsed) ==
    IF type = "print" THEN [buffer |-> buf \o text, events |-> <<>>]
    ELSE [buffer |-> buf,
          events |-> <<[text |-> buf \o text, type |-> type, elapsed |-> elapsed]>>]
handleSerial(buf, text, type, elapsed) ==
    IF type = "print" THEN [buffer |-> buf \o text, events |-> <<>>]
    ELSE [buffer |-> <<>>,
          events |-> <<[text |-> buf \o text, type |-> type, elapsed |-> elapsed]>>]


\* ----------------------------------------------------------------- circuit
\* A JavaScript value that a circuit may hold: a string, a number, NaN,
\* null, undefined, an array, or an object with its keys in enumeration order.
Val(t, n, str, keys, vals) == [t |-> t, n |-> n, s |-> str, keys |-> keys, vals |-> vals]
VStr(str) == Val("string", 0, str, <<>>, <<>>)
VNum(n) == Val("number", n, "", <<>>, <<>>)
VNaN == Val("NaN", 0, "", <<>>, <<>>)
VNull == Val("null", 0, "", <<>>, <<>>)
VUndef == Val("undefined", 0, "", <<>>, <<>>)
VArr(vals) == Val("array", 0, "", <<>>, vals)
VObj(keys, vals) == Val("object", 0, "", keys, vals)

\* c.attrs || {}: what JavaScript takes for false.
Falsy(v) ==
    \/ v.t \in {"undefined", "null", "NaN"}
    \/ v.t = "number" /\ v.n = 0
    \/ v.t = "string" /\ v.s = ""

\* JSON text is a sequence of tokens; Ws is the line break and indentation
\* JSON.stringify(value, null, 2) writes.
Tok(q, n, str) == [q |-> q, n |-> n, s |-> str]
P(q) == Tok(q, 0, "")
Ws == P("ws")

\* JSON.stringify(value, null, 2): NaN is written as null, a property whose
\* value is undefined is left out, an undefined array element is written as
\* null.
Braces(body) ==
    IF body = <<>> THEN <<P("{"), P("}")>> ELSE <<P("{"), Ws>> \o body \o <<Ws, P("}")>>

RECURSIVE stringify(_), stringifyElements(_), stringifyProperties(_, _), Property(_, _, _)
stringify(v) ==
    CASE v.t = "string" -> <<Tok("string", 0, v.s)>>
      [] v.t = "number" -> <<Tok("number", v.n, "")>>
      [] v.t \in {"null", "NaN"} -> <<P("null")>>
      [] v.t = "array" ->
            IF v.vals = <<>> THEN <<P("["), P("]")>>
            ELSE <<P("["), Ws>> \o stringifyElements(v.vals) \o <<Ws, P("]")>>
      [] v.t = "object" -> Braces(stringifyProperties(v.keys, v.vals))
      [] OTHER -> <<>>

stringifyElements(vals) ==
    (IF Head(vals).t = "undefined" THEN <<P("null")>> ELSE stringify(Head(vals)))
    \o (IF Len(vals) = 1 THEN <<>>
        ELSE <<P(","), Ws>> \o stringifyElements(Tail(vals)))

Property(key, v, rest) ==
    IF v.t = "undefined" THEN rest
    ELSE <<Tok("string", 0, key), P(":"), Ws>> \o stringify(v)
         \o (IF rest = <<>> THEN <<>> ELSE <<P(","), Ws>> \o rest)

stringifyProperties(keys, vals) ==
    IF keys = <<>> THEN <<>>
    ELSE Property(Head(keys), Head(vals),
                  stringifyProperties(Tail(keys), Tail(vals)))

\* JSON.parse reads the text ts from a position on: ok is FALSE where it
\* throws a SyntaxError, else v is the value read and next the position
\* after it.
RECURSIVE Skip(_, _)
Skip(ts, i) == IF i <= Len(ts) /\ ts[i].q = "ws" THEN Skip(ts, i + 1) ELSE i

Parsed(v, next) == [ok |-> TRUE, v |-> v, next |-> next]
Fail == [ok |-> FALSE, v |-> VNull, next |-> 0]

RECURSIVE parseJson(_, _), parseElements(_, _, _), parseMembers(_, _, _, _),
          afterElement(_, _, _), afterMember(_, _, _, _, _), afterKey(_, _, _, _, _)
\* The value that starts at the token ts[i].
parseJson(ts, i) ==
    IF i > Len(ts) THEN Fail
    ELSE CASE ts[i].q = "string" -> Parsed(VStr(ts[i].s), i + 1)
           [] ts[i].q = "number" -> Parsed(VNum(ts[i].n), i + 1)
           [] ts[i].q = "null" -> Parsed(VNull, i + 1)
           [] ts[i].q = "[" -> parseElements(ts, Skip(ts, i + 1), <<>>)
           [] ts[i].q = "{" -> parseMembers(ts, Skip(ts, i + 1), <<>>, <<>>)
           [] OTHER -> Fail

\* After "[" or a comma in an array: "]" closes an array without elements.
parseElements(ts, i, acc) ==
    IF i <= Len(ts) /\ ts[i].q = "]" /\ acc = <<>> THEN Parsed(VArr(<<>>), i + 1)
    ELSE afterElement(ts, parseJson(ts, i), acc)

afterElement(ts, e, acc) ==
    IF ~e.ok THEN Fail
    ELSE LET j == Skip(ts, e.next)
         IN IF j > Len(ts) THEN Fail
            ELSE IF ts[j].q = "," THEN parseElements(ts, Skip(ts, j + 1), Append(acc, e.v))
            ELSE IF ts[j].q = "]" THEN Parsed(VArr(Append(acc, e.v)), j + 1)
            ELSE Fail

\* After "{" or a comma in an object: "}" closes an object without members.
parseMembers(ts, i, keys, vals) ==
    IF i <= Len(ts) /\ ts[i].q = "}" /\ keys = <<>> THEN Parsed(VObj(<<>>, <<>>), i + 1)
    ELSE IF i > Len(ts) \/ ts[i].q # "string" THEN Fail
    ELSE afterKey(ts, Skip(ts, i + 1), ts[i].s, keys, vals)

afterKey(ts, j, key, keys, vals) ==
    IF j > Len(ts) \/ ts[j].q # ":" THEN Fail
    ELSE afterMember(ts, parseJson(ts, Skip(ts, j + 1)), key, keys, vals)

afterMember(ts, e, key, keys, vals) ==
    IF ~e.ok THEN Fail
    ELSE LET j == Skip(ts, e.next)
         IN IF j > Len(ts) THEN Fail
            ELSE IF ts[j].q = ","
                 THEN parseMembers(ts, Skip(ts, j + 1), Append(keys, key),
                                   Append(vals, e.v))
            ELSE IF ts[j].q = "}"
                 THEN Parsed(VObj(Append(keys, key), Append(vals, e.v)), j + 1)
            ELSE Fail

\* Nothing but white space may follow the value.
Whole(ts, r) == IF r.ok /\ Skip(ts, r.next) > Len(ts) THEN r ELSE Fail

JSONparse(text) == Whole(text, parseJson(text, Skip(text, 1)))

\* components.map(c => ({type, id, attrs: c.attrs || {}, position}))
RECURSIVE exportParts(_)
exportParts(components) ==
    IF components = <<>> THEN <<>>
    ELSE LET c == Head(components)
         IN <<VObj(<<"type", "id", "attrs", "position">>,
                   <<c.type, c.id,
                     IF Falsy(c.attrs) THEN VObj(<<>>, <<>>) ELSE c.attrs,
                     c.position>>)>>
            \o exportParts(Tail(components))

\* wires.map(w => ({from, to, color}))
RECURSIVE exportConnections(_)
exportConnections(wires) ==
    IF wires = <<>> THEN <<>>
    ELSE LET w == Head(wires)
         IN <<VObj(<<"from", "to", "color">>, <<w.from, w.to, w.color>>)>>
            \o exportConnections(Tail(wires))

Reverse(q) == [j \in 1..Len(q) |-> q[Len(q) + 1 - j]]

\* Engine.exportCircuit
\* (exportCircuit_mut: the parts are written last first.)
exportCircuit_mut(components, wires) ==
    stringify(VObj(<<"version", "editor", "parts", "connections">>,
                   <<VNum(1), VStr("esp32-simulator"),
                     VArr(Reverse(exportParts(components))),
                     VArr(exportConnections(wires))>>))
exportCircuit(components, wires) ==
    stringify(VObj(<<"version", "editor", "parts", "connections">>,
                   <<VNum(1), VStr("esp32-simulator"),
                     VArr(exportParts(components)),
                     VArr(exportConnections(wires))>>))

\* The arguments and the result of the last exportCircuit call, and what the
\* last importCircuit call after it returned (undefined: none yet).
NoCircuit == [components |-> <<>>, wires |-> <<>>, json |-> <<>>, imported |-> VUndef]

\* ------------------------------------------------------------------- state
VARIABLES
    running,         \* Engine.running
    parserRunning,   \* ArduinoParser.running
    startTime,       \* Engine.startTime
    parserStartTime, \* ArduinoParser.startTime
    speed,           \* Engine.speed
    parserSpeed,     \* ArduinoParser.speed
    serialBuffer,    \* Engine.serialBuffer
    peripherals,     \* Engine.peripherals, in Map order
    pins,            \* PinManager.pins, as the lookup this.pins[key] sees it
    listeners,       \* PinManager.listeners
    circuit,         \* the last circuit exported and what importing gave
    variables,       \* ArduinoParser.variables
    functions,       \* ArduinoParser.functions
    setupCode,       \* ArduinoParser.setupCode
    loopCode,        \* ArduinoParser.loopCode
    clock,           \* Date.now()
    runs,            \* the invocations of Engine.start, by number
    nextRun,         \* the number the next accepted start() gets
    cur,             \* the run whose continuation is executing, or 0
    lastStatus,      \* what a status subscriber last received (idle at first)
    execSince,       \* runs in flight that executed a statement since the last accepted start()
    op,              \* the step just taken
    out              \* what the step just taken emitted

vars == <<running, parserRunning, startTime, parserStartTime, speed, parserSpeed,
          serialBuffer, peripherals, pins, variables, functions, setupCode, loopCode, clock,
          runs, nextRun, cur, lastStatus, execSince, op, out, listeners, circuit>>

engineVars == <<running, parserRunning, startTime, parserStartTime, speed, parserSpeed,
                serialBuffer, peripherals, pins, variables, functions, setupCode, loopCode>>

engineVarsButPins ==
    <<running, parserRunning, startTime, parserStartTime, speed, parserSpeed,
      serialBuffer, peripherals, variables, functions, setupCode, loopCode>>

Speeds == {1, 2}
RunIds == 1..MaxRuns

\* A run: where its continuation stands, and what happened to it so far.
\*   pc: none (not started) | stmt (in execute, before statements[i]) |
\*       while (at the test of Engine.start's while) | sleep (awaiting the timer
\*       of a delay) | yield (awaiting the 1 ms timer after a loop pass) | done
\*   phase: the execute call it is in; stmts: the array that call was given
\*   stopSeen: stop() was called while it was in flight
\*   susStop: stop() was called during its current (or last) suspension
\*   setupStop: stop() was called before its setup pass returned
\*   setupCount: statements of setup it has executed
NoRun ==
    [pc |-> "none", phase |-> "setup", stmts |-> <<>>, i |-> 1, due |-> 0,
     stopSeen |-> FALSE, susStop |-> FALSE, setupStop |-> FALSE, setupCount |-> 0]

InFlight(r) == runs[r].pc \notin {"none", "done"}
Suspended(r) == runs[r].pc \in {"sleep", "yield"}

Op(name, r, phase, idx, flag) ==
    [name |-> name, run |-> r, phase |-> phase, idx |-> idx, flag |-> flag]

\* What one step emitted: status events, serial events, reset hooks invoked,
\* pin notifications; prevStatus is the status last emitted before the step.
Out(status, serial, hooks, notified) ==
    [status |-> status, serial |-> serial, hooks |-> hooks, notified |-> notified,
     prevStatus |-> lastStatus]

LastOf(prev, s) == IF s = <<>> THEN prev ELSE s[Len(s)]

\* Engine.handleSerial's elapsed argument, in ms: Date.now() - this.startTime.
Elapsed == clock - startTime

\* Engine.getElapsedTime, in ms.  this.startTime is 0 (falsy) until the
\* first accepted start() stores Date.now(), which is never 0.
getElapsedTime == IF nextRun = 1 THEN 0 ELSE (clock - startTime) * speed

Init ==
    /\ running = FALSE
    /\ parserRunning = FALSE
    /\ startTime = 0
    /\ parserStartTime = 0
    /\ speed = 1
    /\ parserSpeed = 1
    /\ serialBuffer = <<>>
    /\ peripherals = <<>>
    /\ pins = newPins
    /\ listeners = <<>>
    /\ circuit = NoCircuit
    /\ variables = NoVars
    /\ functions = NoVars
    /\ setupCode = <<>>
    /\ loopCode = <<>>
    /\ clock = 0
    /\ runs = [r \in RunIds |-> NoRun]
    /\ nextRun = 1
    /\ cur = 0
    /\ lastStatus = "idle"
    /\ execSince = {}
    /\ op = Op("init", 0, "", 0, FALSE)
    /\ out = [status |-> <<>>, serial |-> <<>>, hooks |-> <<>>, notified |-> <<>>,
              prevStatus |-> "idle"]


\* ------------------------------------------------------------ host calls
\* Engine.start, line 52: if (this.running) return;
\* (StartRefuses_mut: the test left out.)
StartRefuses_mut == FALSE
StartRefuses == running

\* Engine.start up to its first await: the flags, the timestamp, the status
\* event and the parse; the new run stands before the first setup statement.
Start(code) ==
    /\ cur = 0
    /\ IF StartRefuses
       THEN /\ op' = Op("start", 0, "", 0, TRUE)
            /\ out' = Out(<<>>, <<>>, <<>>, <<>>)
            /\ UNCHANGED <<listeners, circuit, engineVars, clock, runs, nextRun, cur, lastStatus, execSince>>
       ELSE /\ nextRun <= MaxRuns
            /\ LET p == parse(code)
                   r == nextRun
               IN /\ running' = TRUE
                  /\ parserRunning' = TRUE
                  /\ startTime' = clock
                  /\ parserStartTime' = clock
                  /\ parserSpeed' = speed
                  /\ variables' = p.variables
                  /\ functions' = NoVars
                  /\ setupCode' = p.setupCode
                  /\ loopCode' = p.loopCode
                  /\ runs' = [runs EXCEPT ![r] =
                                 [NoRun EXCEPT !.pc = "stmt", !.stmts = p.setupCode]]
                  /\ nextRun' = r + 1
                  /\ cur' = r
                  /\ lastStatus' = "running"
                  /\ execSince' = {}
                  /\ op' = Op("start", r, "", 0, FALSE)
                  /\ out' = Out(<<"running">>, <<>>, <<>>, <<>>)
            /\ UNCHANGED <<listeners, circuit, speed, serialBuffer, peripherals, pins, clock>>

\* Engine.stop, line 90: the status event stop() emits.
\* (stopStatus_mut: stop() without its notifyStatus.)
stopStatus_mut == <<>>
stopStatus == <<"stopped">>

\* What a stop() call means to the runs in flight (all are suspended).
StopSeen ==
    [r \in RunIds |->
        IF InFlight(r)
        THEN [runs[r] EXCEPT !.stopSeen = TRUE, !.susStop = TRUE,
                             !.setupStop = @ \/ runs[r].phase = "setup"]
        ELSE runs[r]]

Stop ==
    /\ cur = 0
    /\ running' = FALSE
    /\ parserRunning' = FALSE
    /\ runs' = StopSeen
    /\ lastStatus' = LastOf(lastStatus, stopStatus)
    /\ op' = Op("stop", 0, "", 0, FALSE)
    /\ out' = Out(stopStatus, <<>>, <<>>, <<>>)
    /\ UNCHANGED <<listeners, circuit, startTime, parserStartTime, speed, parserSpeed, serialBuffer,
                   peripherals, pins, variables, functions, setupCode, loopCode, clock,
                   nextRun, cur, execSince>>

\* Engine.reset: stop(), pinManager.reset(), the variables, the buffer, the
\* idle event, the peripherals' reset hooks.  op.flag records that the call
\* found a run in flight, a pin, the variables and the buffer changed.
Reset ==
    /\ cur = 0
    /\ LET pr == PM_reset(pins)
           st == stopStatus \o <<"idle">>
       IN /\ running' = FALSE
          /\ parserRunning' = FALSE
          /\ runs' = StopSeen
          /\ pins' = pr.pins
          /\ variables' = NoVars
          /\ serialBuffer' = <<>>
          /\ lastStatus' = LastOf(lastStatus, st)
          /\ op' = Op("reset", 0, "", 0,
                      /\ running
                      /\ \E r \in RunIds : InFlight(r)
                      /\ \E pin \in Gpios : pins[pin].mode # "INPUT"
                      /\ \E pin \in Gpios : pins[pin].pwmValue # 0
                      /\ \E pin \in Gpios : pins[pin].analogValue # 0
                      /\ variables # NoVars
                      /\ serialBuffer # <<>>)
          /\ out' = Out(st, <<>>, resetHooks(peripherals), pr.notified)
    /\ UNCHANGED <<listeners, circuit, startTime, parserStartTime, speed, parserSpeed, peripherals,
                   functions, setupCode, loopCode, clock, nextRun, cur, execSince>>

\* Engine.setSpeed.  The multiplier only scales the timers' durations, and
\* a timer may fire any time after it is due, so Spec leaves it at 1;
\* SpecSketch sets it.
SetSpeed(s) ==
    /\ cur = 0
    /\ speed' = s
    /\ parserSpeed' = s
    /\ op' = Op("setSpeed", 0, "", 0, FALSE)
    /\ out' = Out(<<>>, <<>>, <<>>, <<>>)
    /\ UNCHANGED <<listeners, circuit, running, parserRunning, startTime, parserStartTime, serialBuffer,
                   peripherals, pins, variables, functions, setupCode, loopCode, clock, runs,
                   nextRun, cur, lastStatus, execSince>>

\* The calls that wire the circuit.
Wiring == op.name \in {"init", "register", "remove", "setAnalog"}

\* Engine.registerPeripheral
registerPeripheral(d) ==
    /\ cur = 0
    /\ peripherals' = MapSet(peripherals, d)
    /\ pins' = connectAll(pins, d.connectedPins, d.id, d.type)
    /\ op' = Op("register", 0, "", 0, FALSE)
    /\ out' = Out(<<>>, <<>>, <<>>, <<>>)
    /\ UNCHANGED <<listeners, circuit, running, parserRunning, startTime, parserStartTime, speed,
                   parserSpeed, serialBuffer, variables, functions, setupCode, loopCode, clock,
                   runs, nextRun, cur, lastStatus, execSince>>

\* Engine.removePeripheral
removePeripheral(id) ==
    /\ cur = 0
    /\ pins' = IF \E j \in 1..Len(peripherals) : peripherals[j].id = id
               THEN LET d == CHOOSE e \in {peripherals[j] : j \in 1..Len(peripherals)} :
                                 e.id = id
                    IN disconnectAll(pins, d.connectedPins)
               ELSE pins
    /\ peripherals' = MapDelete(peripherals, id)
    /\ op' = Op("remove", 0, "", 0, FALSE)
    /\ out' = Out(<<>>, <<>>, <<>>, <<>>)
    /\ UNCHANGED <<listeners, circuit, running, parserRunning, startTime, parserStartTime, speed,
                   parserSpeed, serialBuffer, variables, functions, setupCode, loopCode, clock,
                   runs, nextRun, cur, lastStatus, execSince>>

\* PinManager.setAnalogValue, called by the host for a component's slider.
AdcInputs == {5000}
setAnalogValue(pin, v) ==
    /\ cur = 0
    /\ pins' = PM_setAnalogValue(pins, pin, v)
    /\ op' = Op("setAnalog", 0, "", 0, FALSE)
    /\ out' = Out(<<>>, <<>>, <<>>, <<>>)
    /\ UNCHANGED <<listeners, circuit, running, parserRunning, startTime, parserStartTime, speed,
                   parserSpeed, serialBuffer, peripherals, variables, functions, setupCode,
                   loopCode, clock, runs, nextRun, cur, lastStatus, execSince>>

\* In Spec the circuit is wired before the first other call to the engine.
RegisterPeripheral(d) == Wiring /\ registerPeripheral(d)
RemovePeripheral(id) == Wiring /\ removePeripheral(id)
SetAnalogValue(pin, v) == Wiring /\ setAnalogValue(pin, v)

\* The host clock advances while no continuation is executing.
Tick ==
    /\ cur = 0
    /\ clock < MaxClock
    /\ clock' = clock + 1
    /\ op' = Op("tick", 0, "", 0, FALSE)
    /\ out' = Out(<<>>, <<>>, <<>>, <<>>)
    /\ UNCHANGED <<listeners, circuit, engineVars, runs, nextRun, cur, lastStatus, execSince>>


\* ------------------------------------------------------------------ a run
\* Number.prototype.toFixed throws a RangeError above this many digits.
ToFixedMax == 100
\* ArduinoParser.sleep: setTimeout(resolve, Math.max(1, ms))
MinSleep == 1
\* Engine.start: await new Promise(r => setTimeout(r, 1))
YieldMs == 1

Max(a, b) == IF a >= b THEN a ELSE b

\* ArduinoParser.sleep(ms / this.speed): the timer's duration.  The delays
\* of the sketches are multiples of the speeds, so the quotient is exact.
\* (sleepMs_mut: the requested duration, not divided.)
sleepMs_mut(ms) == Max(MinSleep, ms)
sleepMs(ms) == Max(MinSleep, ms \div parserSpeed)

SetVar(vs, name, v) ==
    [n \in DOMAIN vs \cup {name} |-> IF n = name THEN v ELSE vs[n]]

\* ArduinoParser.executeStatement on one statement: res is sleep (it awaits
\* a timer of ms), throw (it raises msg) or ok, with the tables it leaves.
executeStatement(stmt) ==
    LET same == [res |-> "ok", ms |-> 0, msg |-> "", pins |-> pins,
                 variables |-> variables, buffer |-> serialBuffer,
                 serial |-> <<>>, notified |-> <<>>]
    IN CASE stmt.k = "delay" ->
                [same EXCEPT !.res = "sleep", !.ms = sleepMs(stmt.ms)]
         [] stmt.k = "begin" ->
                LET h == handleSerial(serialBuffer, <<SystemMsg>>, "system", Elapsed)
                IN [same EXCEPT !.buffer = h.buffer, !.serial = h.events]
         [] stmt.k \in {"print", "println"} ->
                LET h == handleSerial(serialBuffer, stmt.text, stmt.k, Elapsed)
                IN [same EXCEPT !.buffer = h.buffer, !.serial = h.events]
         [] stmt.k = "printf" ->
                IF stmt.prec > ToFixedMax
                THEN [same EXCEPT !.res = "throw", !.msg = ToFixedMsg]
                ELSE LET h == handleSerial(serialBuffer, <<"%f">>, "printf", Elapsed)
                     IN [same EXCEPT !.buffer = h.buffer, !.serial = h.events]
         [] stmt.k = "pinMode" ->
                LET w == PM_pinMode(pins, stmt.pin, stmt.mode)
                IN [same EXCEPT !.pins = w.pins, !.notified = w.notified]
         [] stmt.k = "digitalWrite" ->
                LET w == PM_digitalWrite(pins, stmt.pin, stmt.v)
                IN [same EXCEPT !.pins = w.pins, !.notified = w.notified]
         [] stmt.k = "analogWrite" ->
                LET w == PM_analogWrite(pins, stmt.pin, stmt.v)
                IN [same EXCEPT !.pins = w.pins, !.notified = w.notified]
         [] stmt.k = "assign" ->
                [same EXCEPT !.variables = SetVar(variables, stmt.name, stmt.v)]
         [] OTHER -> same

\* ArduinoParser.execute, line 153, and executeStatement, line 163: the
\* running flag is tested before every statement.
RunActive == parserRunning

AtStatement(r) ==
    /\ cur = r
    /\ runs[r].pc = "stmt"
    /\ runs[r].i <= Len(runs[r].stmts)
    /\ RunActive

\* One statement of execute's for loop that does not throw.  A delay leaves
\* the run suspended on its timer.
ExecuteStatement(r) ==
    /\ AtStatement(r)
    /\ LET run == runs[r]
           stmt == run.stmts[run.i]
           e == executeStatement(stmt)
           counted == [run EXCEPT !.setupCount =
                           IF run.phase = "setup" THEN @ + 1 ELSE @]
       IN /\ e.res # "throw"
          /\ pins' = e.pins
          /\ variables' = e.variables
          /\ serialBuffer' = e.buffer
          /\ IF e.res = "sleep"
             THEN /\ runs' = [runs EXCEPT ![r] =
                                 [counted EXCEPT !.pc = "sleep", !.due = clock + e.ms,
                                                 !.susStop = FALSE]]
                  /\ cur' = 0
             ELSE /\ runs' = [runs EXCEPT ![r] = [counted EXCEPT !.i = @ + 1]]
                  /\ cur' = r
          /\ execSince' = execSince \cup {r}
          /\ op' = Op("stmt", r, run.phase, run.i, stmt.k # "delay")
          /\ out' = Out(<<>>, e.serial, <<>>, e.notified)
    /\ UNCHANGED <<listeners, circuit, running, parserRunning, startTime, parserStartTime, speed,
                   parserSpeed, peripherals, functions, setupCode, loopCode, clock, nextRun,
                   lastStatus>>

\* Engine.start, lines 74-81: the catch block, then the test of line 79.
catchStatus == <<"error">> \o (IF ~running THEN <<"stopped">> ELSE <<>>)

\* A statement throws: the exception leaves execute and is caught in start.
Catch(r) ==
    /\ AtStatement(r)
    /\ LET run == runs[r]
           e == executeStatement(run.stmts[run.i])
           h == handleSerial(serialBuffer, <<ErrPrefix, e.msg>>, "error", Elapsed)
       IN /\ e.res = "throw"
          /\ serialBuffer' = h.buffer
          /\ runs' = [runs EXCEPT ![r] = [run EXCEPT !.pc = "done"]]
          /\ lastStatus' = LastOf(lastStatus, catchStatus)
          /\ op' = Op("catch", r, run.phase, run.i, FALSE)
          /\ out' = Out(catchStatus, h.events, <<>>, <<>>)
    /\ cur' = 0
    /\ execSince' = execSince \ {r}
    /\ UNCHANGED <<listeners, circuit, running, parserRunning, startTime, parserStartTime, speed,
                   parserSpeed, peripherals, pins, variables, functions, setupCode, loopCode,
                   clock, nextRun>>

\* execute returns: after the last statement, or at line 153 with the flag
\* cleared.  After setup the run goes to the while test; after a loop pass
\* it awaits the 1 ms timer of line 72.
ExecuteReturn(r) ==
    /\ cur = r
    /\ runs[r].pc = "stmt"
    /\ runs[r].i > Len(runs[r].stmts) \/ ~RunActive
    /\ IF runs[r].phase = "setup"
       THEN /\ runs' = [runs EXCEPT ![r].pc = "while"]
            /\ cur' = r
       ELSE /\ runs' = [runs EXCEPT ![r].pc = "yield", ![r].due = clock + YieldMs,
                                    ![r].susStop = FALSE]
            /\ cur' = 0
    /\ op' = Op("return", r, runs[r].phase, runs[r].i, FALSE)
    /\ out' = Out(<<>>, <<>>, <<>>, <<>>)
    /\ UNCHANGED <<listeners, circuit, engineVars, clock, nextRun, lastStatus, execSince>>

\* Engine.start, line 69: while (this.running)
LoopGoesOn == running

\* Engine.start, lines 79-81: the status event a run emits when it leaves.
exitStatus == IF ~running THEN <<"stopped">> ELSE <<>>

\* The while test: another pass over this.parser.loopCode, or the run ends.
WhileTest(r) ==
    /\ cur = r
    /\ runs[r].pc = "while"
    /\ IF LoopGoesOn
       THEN /\ runs' = [runs EXCEPT ![r].pc = "stmt", ![r].phase = "loop",
                                    ![r].stmts = loopCode, ![r].i = 1]
            /\ cur' = r
            /\ lastStatus' = lastStatus
            /\ execSince' = execSince
            /\ op' = Op("while", r, "loop", 0, TRUE)
            /\ out' = Out(<<>>, <<>>, <<>>, <<>>)
       ELSE /\ runs' = [runs EXCEPT ![r].pc = "done"]
            /\ cur' = 0
            /\ lastStatus' = LastOf(lastStatus, exitStatus)
            /\ execSince' = execSince \ {r}
            /\ op' = Op("exit", r, runs[r].phase, 0, FALSE)
            /\ out' = Out(exitStatus, <<>>, <<>>, <<>>)
    /\ UNCHANGED <<listeners, circuit, engineVars, clock, nextRun>>

\* setTimeout: the callback runs no earlier than the timer's due time.
TimerDue(r) == clock >= runs[r].due

\* A timer fires and the suspended run's continuation starts executing.
Resume(r) ==
    /\ cur = 0
    /\ Suspended(r)
    /\ TimerDue(r)
    /\ runs' = IF runs[r].pc = "sleep"
               THEN [runs EXCEPT ![r].pc = "stmt", ![r].i = @ + 1]
               ELSE [runs EXCEPT ![r].pc = "while"]
    /\ cur' = r
    /\ op' = Op("resume", r, runs[r].phase, runs[r].i, runs[r].pc = "sleep")
    /\ out' = Out(<<>>, <<>>, <<>>, <<>>)
    /\ UNCHANGED <<listeners, circuit, engineVars, clock, nextRun, lastStatus, execSince>>

Next ==
    \/ \E code \in Sketches : Start(code)
    \/ Stop
    \/ Reset
    \/ \E d \in Descriptors : RegisterPeripheral(d)
    \/ \E d \in Descriptors : RemovePeripheral(d.id)
    \/ \E v \in AdcInputs : SetAnalogValue("2", v)
    \/ Tick
    \/ \E r \in RunIds : Resume(r)
    \/ \E r \in RunIds : ExecuteStatement(r)
    \/ \E r \in RunIds : Catch(r)
    \/ \E r \in RunIds : ExecuteReturn(r)
    \/ \E r \in RunIds : WhileTest(r)

Spec == Init /\ [][Next]_vars

\* One sketch that writes to the serial port and to the pins, run at either
\* speed, reset and run again.
NextSketch ==
    \/ Start(SketchIO)
    \/ Reset
    \/ \E s \in Speeds : SetSpeed(s)
    \/ Tick
    \/ \E r \in RunIds : Resume(r)
    \/ \E r \in RunIds : ExecuteStatement(r)
    \/ \E r \in RunIds : Catch(r)
    \/ \E r \in RunIds : ExecuteReturn(r)
    \/ \E r \in RunIds : WhileTest(r)

SpecSketch == Init /\ [][NextSketch]_vars


\* The blink sketch runs while peripherals are registered and removed.
NextWire ==
    \/ Start(SketchBlink)
    \/ \E d \in Descriptors : registerPeripheral(d)
    \/ \E d \in Descriptors : removePeripheral(d.id)
    \/ Tick
    \/ \E r \in RunIds : Resume(r)
    \/ \E r \in RunIds : ExecuteStatement(r)
    \/ \E r \in RunIds : ExecuteReturn(r)
    \/ \E r \in RunIds : WhileTest(r)

SpecWire == Init /\ [][NextWire]_vars


\* ------------------------------------------------ the pin manager's calls
\* The arguments explored: a GPIO, a rail, an id the board does not have
\* and a name the table inherits; duties and readings below, inside and
\* above their ranges; a falsy and a truthy level.
PinArgs == {"2", "3V3", "99", "constructor"}
ModeArgs == {"OUTPUT"}
LevelArgs == {0, 7}
DutyArgs == {-3, 128, 300}
ReadingArgs == {-1, 2048, 5000}
Callbacks == {"ui", "part"}

\* The listener calls the step just taken made.
Calls == notifyAll(listeners, pins, out.notified)

\* A call made by the host that leaves the table and the notifications of
\* w; op.idx counts the calls, op.flag records that the call found a table
\* that differs from the one initPins builds.
PinCall(name, w) ==
    /\ pins' = w.pins
    /\ op' = Op(name, 0, "", op.idx + 1, \E pin \in PinIds : pins[pin] # initPins[pin])
    /\ out' = Out(<<>>, <<>>, <<>>, w.notified)
    /\ UNCHANGED <<engineVarsButPins, listeners, circuit, clock, runs, nextRun, cur,
                   lastStatus, execSince>>

Silent(ps) == [pins |-> ps, notified |-> <<>>]

\* PinManager.onChange
onChange(cb) ==
    /\ op.idx < MaxCalls
    /\ Len(listeners) < MaxListeners
    /\ listeners' = Append(listeners, cb)
    /\ op' = Op("onChange", 0, "", op.idx + 1, FALSE)
    /\ out' = Out(<<>>, <<>>, <<>>, <<>>)
    /\ UNCHANGED <<engineVars, circuit, clock, runs, nextRun, cur, lastStatus,
                   execSince>>

pinMode(pin, mode) ==
    /\ op.idx < MaxCalls
    /\ PinCall("pinMode", PM_pinMode(pins, pin, mode))

digitalWrite(pin, value) ==
    /\ op.idx < MaxCalls
    /\ PinCall("digitalWrite", PM_digitalWrite(pins, pin, value))

analogWrite(pin, value) ==
    /\ op.idx < MaxCalls
    /\ PinCall("analogWrite", PM_analogWrite(pins, pin, value))

writeAnalogValue(pin, value) ==
    /\ op.idx < MaxCalls
    /\ PinCall("setAnalogValue", Silent(PM_setAnalogValue(pins, pin, value)))

connectPin(pin, componentId, pinName) ==
    /\ op.idx < MaxCalls
    /\ PinCall("connectPin", Silent(PM_connectPin(pins, pin, componentId, pinName)))

disconnectPin(pin) ==
    /\ op.idx < MaxCalls
    /\ PinCall("disconnectPin", Silent(PM_disconnectPin(pins, pin)))

\* PinManager.reset
pinManagerReset ==
    /\ op.idx < MaxCalls
    /\ PinCall("pinReset", PM_reset(pins))

NextPins ==
    \/ \E cb \in Callbacks : onChange(cb)
    \/ \E pin \in PinArgs, mode \in ModeArgs : pinMode(pin, mode)
    \/ \E pin \in PinArgs, v \in LevelArgs : digitalWrite(pin, v)
    \/ \E pin \in PinArgs, v \in DutyArgs : analogWrite(pin, v)
    \/ \E pin \in PinArgs, v \in ReadingArgs : writeAnalogValue(pin, v)
    \/ \E pin \in PinArgs : connectPin(pin, "led1", "led")
    \/ \E pin \in PinArgs : disconnectPin(pin)
    \/ pinManagerReset

SpecPins == Init /\ [][NextPins]_vars


\* ------------------------------------------------ circuit export / import
\* The fields explored: attrs absent, empty, or an object of a string and a
\* number; position absent, or an object of numbers, one of them NaN.
AttrsArgs ==
    {VUndef, VObj(<<>>, <<>>), VObj(<<"color", "value">>, <<VStr("red"), VNum(50)>>)}
PositionArgs ==
    {VUndef, VObj(<<"x", "y">>, <<VNum(10), VNum(80)>>),
     VObj(<<"x", "y">>, <<VNaN, VNum(80)>>)}
ComponentArgs ==
    {[type |-> VStr("led"), id |-> VStr("led1"), attrs |-> a, position |-> p] :
        a \in AttrsArgs, p \in PositionArgs}
WireArgs ==
    {[from |-> VStr("led1:A"), to |-> VStr("esp:2"), color |-> c] :
        c \in {VStr("green"), VUndef}}

ListsOf(S, n) == UNION {[1..m -> S] : m \in 0..n}

\* A file cut short.
Truncated(text) == SubSeq(text, 1, Len(text) - 1)

ParseErrMsg == "Unexpected end of JSON input"

\* engine.exportCircuit(placedComponents, wires)
ExportCircuit(components, wires) ==
    /\ cur = 0
    /\ circuit' = [components |-> components, wires |-> wires,
                   json |-> exportCircuit(components, wires), imported |-> VUndef]
    /\ op' = Op("export", 0, "", 0, FALSE)
    /\ out' = Out(<<>>, <<>>, <<>>, <<>>)
    /\ UNCHANGED <<engineVars, listeners, clock, runs, nextRun, cur, lastStatus,
                   execSince>>

\* Engine.importCircuit with r from JSON.parse: the value is returned, or
\* the catch block emits the error event and null is returned.
Imported(r) ==
    LET h == IF r.ok THEN [buffer |-> serialBuffer, events |-> <<>>]
             ELSE handleSerial(serialBuffer,
                               <<ErrPrefix, "Invalid circuit file: ", ParseErrMsg>>,
                               "error", Elapsed)
    IN /\ circuit' = [circuit EXCEPT !.imported = r.v]
       /\ serialBuffer' = h.buffer
       /\ op' = Op("import", 0, "", 0, r.ok)
       /\ out' = Out(<<>>, h.events, <<>>, <<>>)

\* Engine.importCircuit
importCircuit(json) ==
    /\ cur = 0
    /\ Imported(JSONparse(json))
    /\ UNCHANGED <<running, parserRunning, startTime, parserStartTime, speed,
                   parserSpeed, peripherals, pins, variables, functions, setupCode, loopCode,
                   listeners, clock, runs, nextRun, cur, lastStatus, execSince>>

\* The file the host reads back: the exported text, whole or cut short.
ImportCircuit(cut) ==
    /\ op.name # "init"
    /\ importCircuit(IF cut THEN Truncated(circuit.json) ELSE circuit.json)

\* The result of an export depends on its arguments alone, so one export
\* and the imports after it are explored.
ExportOne ==
    /\ op.name = "init"
    /\ \E components \in ListsOf(ComponentArgs, MaxParts),
          wires \in ListsOf(WireArgs, MaxParts) : ExportCircuit(components, wires)

NextCircuit ==
    \/ ExportOne
    \/ \E cut \in BOOLEAN : ImportCircuit(cut)

SpecCircuit == Init /\ [][NextCircuit]_vars


\* Files read back while a sketch runs: no text at all, an exported circuit
\* cut short, and the exported circuit whole.
EmptyCircuitText == exportCircuit(<<>>, <<>>)
MalformedArgs == {<<>>, Truncated(EmptyCircuitText)}
ImportArgs == MalformedArgs \cup {EmptyCircuitText}

NextImport ==
    \/ Start(SketchIO)
    \/ Tick
    \/ \E r \in RunIds : Resume(r)
    \/ \E r \in RunIds : ExecuteStatement(r)
    \/ \E r \in RunIds : Catch(r)
    \/ \E r \in RunIds : ExecuteReturn(r)
    \/ \E r \in RunIds : WhileTest(r)
    \/ \E json \in ImportArgs : importCircuit(json)

SpecImport == Init /\ [][NextImport]_vars


\* ------------------------------------------------------------ source text
\* A text (a JavaScript string) is the sequence of its characters.
Digits == <<"0", "1", "2", "3", "4", "5", "6", "7", "8", "9">>
DigitChars == {Digits[k] : k \in 1..10}
Letters ==
    {"a", "b", "c", "d", "e", "f", "g", "h", "i", "j", "k", "l", "m", "n", "o", "p",
     "q", "r", "s", "t", "u", "v", "w", "x", "y", "z", "A", "B", "C", "D", "E", "F",
     "G", "H", "I", "J", "K", "L", "M", "N", "O", "P", "Q", "R", "S", "T", "U", "V",
     "W", "X", "Y", "Z"}
\* the classes \w and \s of the regular expressions, and what . leaves out
WordChars == Letters \cup DigitChars \cup {"_"}
SpaceChars == {" ", "\t", "\n"}
NL == "\n"

\* text.substring(a - 1, b), with the indices of a sequence
Sub(s, a, b) == IF a > b THEN <<>> ELSE SubSeq(s, a, b)

\* p occurs in s at index i
At(s, p, i) ==
    /\ i >= 1
    /\ i + Len(p) - 1 <= Len(s)
    /\ \A k \in 1..Len(p) : s[i + k - 1] = p[k]

Min(S) == CHOOSE x \in S : \A y \in S : x <= y
\* the least and the greatest element of a set of indices, 0 when it is empty
First(S) == IF S = {} THEN 0 ELSE Min(S)
Last(S) == IF S = {} THEN 0 ELSE CHOOSE x \in S : \A y \in S : x >= y

startsWith(s, p) == At(s, p, 1)
endsWith(s, p) == At(s, p, Len(s) - Len(p) + 1)

\* s.indexOf(p, i - 1) + 1: the first index from i on where p occurs, or 0
indexFrom(s, p, i) == First({k \in i..Len(s) : At(s, p, k)})

indexOf(s, p) == indexFrom(s, p, 1)
includes(s, p) == indexOf(s, p) # 0

\* the index after the longest run of characters of class cls that starts at i
SkipClass(s, cls, i) ==
    IF i > Len(s) THEN i ELSE Min({k \in i..(Len(s) + 1) : k > Len(s) \/ s[k] \notin cls})

\* \s* and \w* from index i on (greedy)
SkipWs(s, i) == SkipClass(s, SpaceChars, i)
SkipWord(s, i) == SkipClass(s, WordChars, i)

\* the index of the last character that is not white space, at or before i
BackWs(s, i) == Last({k \in 1..i : s[k] \notin SpaceChars})

\* String.prototype.trim
trim(s) == Sub(s, SkipWs(s, 1), BackWs(s, Len(s)))

\* the index of the end of the line that holds index i (before its "\n")
LineEnd(s, i) ==
    LET n == indexFrom(s, <<NL>>, i) IN IF n = 0 THEN Len(s) ELSE n - 1

RECURSIVE splitFrom(_, _, _, _, _)
\* String.prototype.split on a separator that is not empty; n is where the
\* separator next occurs from index i on
splitFrom(s, sep, i, n, acc) ==
    IF n = 0 THEN Append(acc, Sub(s, i, Len(s)))
    ELSE splitFrom(s, sep, n + Len(sep), indexFrom(s, sep, n + Len(sep)),
                   Append(acc, Sub(s, i, n - 1)))

split(s, sep) == splitFrom(s, sep, 1, indexFrom(s, sep, 1), <<>>)

\* (line.match(/c/g) || []).length for one character c
Count(s, c) == Cardinality({k \in 1..Len(s) : s[k] = c})

RECURSIVE joinFrom(_, _, _, _)
\* Array.prototype.join
joinFrom(parts, sep, i, acc) ==
    IF i > Len(parts) THEN acc
    ELSE joinFrom(parts, sep, i + 1, IF i = 1 THEN parts[i] ELSE acc \o sep \o parts[i])

join(parts, sep) == joinFrom(parts, sep, 1, <<>>)

\* ---- numbers and their decimal text
\* JavaScript values: numbers (the integers, two infinities and NaN are
\* told apart by the field t), strings and the functions that a plain
\* object inherits.
Str(s) == [t |-> "string", s |-> s]
NaN == [t |-> "NaN", n |-> 0]
Infinity(sign) == [t |-> "Infinity", n |-> sign]
\* a quotient that is not an integer: n / d, d > 0, in lowest terms not needed
Ratio(n, d) == [t |-> "ratio", n |-> n, d |-> d]
NativeFunction(name) == [t |-> "function", s |-> name]

DigitOf(c) == CHOOSE k \in 0..9 : Digits[k + 1] = c

RECURSIVE NatOf(_, _, _)
\* the number written by the digits s[i..], acc being the digits before
NatOf(s, i, acc) ==
    IF i > Len(s) THEN acc ELSE NatOf(s, i + 1, 10 * acc + DigitOf(s[i]))

RECURSIVE NatText(_)
NatText(n) ==
    IF n < 10 THEN <<Digits[n + 1]>> ELSE Append(NatText(n \div 10), Digits[(n % 10) + 1])

\* String(n) for an integer
IntText(n) == IF n < 0 THEN <<"-">> \o NatText(-n) ELSE NatText(n)

\* /^-?\d+(\.\d+)?$/ without the fraction: the texts the sketches here use
IsIntText(s) ==
    LET d == IF startsWith(s, <<"-">>) THEN 2 ELSE 1
    IN d <= Len(s) /\ \A k \in d..Len(s) : s[k] \in DigitChars

\* parseFloat of such a text
IntOf(s) == IF s[1] = "-" THEN Num(-NatOf(s, 2, 0)) ELSE Num(NatOf(s, 1, 0))

\* ---- tables
\* this.variables, this.functions and every localVars are plain objects:
\* name in obj and obj[name] also see what Object.prototype gives them.
ProtoNames == {<<"v","a","l","u","e","O","f">>}
has(obj, name) == name \in DOMAIN obj \/ name \in ProtoNames
get(obj, name) ==
    IF name \in DOMAIN obj THEN obj[name]
    ELSE IF name \in ProtoNames THEN NativeFunction(name)
    ELSE Undefined
NoTable == [n \in {} |-> Undefined]

\* ---- ArduinoParser.parse
\* code.replace(/\/\/.*$/gm, ''): in every line, from the first // to its end
cutLineComment(line) ==
    IF includes(line, <<"/","/">>) THEN Sub(line, 1, indexOf(line, <<"/","/">>) - 1) ELSE line

stripLineComments(code) ==
    join([k \in 1..Len(split(code, <<NL>>)) |-> cutLineComment(split(code, <<NL>>)[k])],
         <<NL>>)

RECURSIVE stripBlockComments(_, _, _, _)
\* code.replace(/\/\*[\s\S]*?\*\//g, ''): from a /* at index n to the next */
stripBlockComments(s, i, n, acc) ==
    IF n = 0 \/ indexFrom(s, <<"*","/">>, n + 2) = 0 THEN acc \o Sub(s, i, Len(s))
    ELSE stripBlockComments(s, indexFrom(s, <<"*","/">>, n + 2) + 2,
                            indexFrom(s, <<"/","*">>, indexFrom(s, <<"*","/">>, n + 2) + 2),
                            acc \o Sub(s, i, n - 1))

removeBlockComments(code) == stripBlockComments(code, 1, indexFrom(code, <<"/","*">>, 1), <<>>)

\* lines 28-29
removeComments(code) == removeBlockComments(stripLineComments(code))

\* ArduinoParser.parseValue.  (The texts explored hold no fractions and no
\* hexadecimal literals.)
parseValueOf(str, tbl) ==
    IF str \in {<<"t","r","u","e">>, <<"H","I","G","H">>} THEN Num(1)
    ELSE IF str \in {<<"f","a","l","s","e">>, <<"L","O","W">>} THEN Num(0)
    ELSE IF IsIntText(str) THEN IntOf(str)
    ELSE IF startsWith(str, <<"\"">>) /\ endsWith(str, <<"\"">>)
         THEN Str(Sub(str, 2, Len(str) - 1))
    ELSE IF has(tbl, str) THEN get(tbl, str)
    ELSE Num(0)

dropSemicolon(str) == IF endsWith(str, <<";">>) THEN trim(Sub(str, 1, Len(str) - 1)) ELSE str
parseValue(str, tbl) == parseValueOf(dropSemicolon(trim(str)), tbl)

\* the alternatives of the type groups of lines 72, 82 and 288, and 49
FuncTypes == {<<"v","o","i","d">>, <<"i","n","t">>, <<"f","l","o","a","t">>, <<"d","o","u","b","l","e">>, <<"b","o","o","l">>, <<"S","t","r","i","n","g">>}
DeclTypes == {<<"i","n","t">>, <<"f","l","o","a","t">>, <<"d","o","u","b","l","e">>, <<"b","o","o","l">>, <<"l","o","n","g">>, <<"b","y","t","e">>, <<"c","h","a","r">>, <<"S","t","r","i","n","g">>}
DefTypes == {<<"v","o","i","d">>, <<"i","n","t">>, <<"f","l","o","a","t">>, <<"d","o","u","b","l","e">>, <<"b","o","o","l">>, <<"S","t","r","i","n","g">>, <<"l","o","n","g">>, <<"u","n","s","i","g","n","e","d">>}

\* the index after one of the words of a set that occurs at index i, or 0
WordEnd(s, words, i) ==
    IF \E w \in words : At(s, w, i) THEN i + Len(CHOOSE w \in words : At(s, w, i)) ELSE 0

\* (?:int|float|double|bool|long|unsigned\s+long|byte|char|String) at i
DeclTypeEnd(s, i) ==
    IF WordEnd(s, DeclTypes, i) # 0 THEN WordEnd(s, DeclTypes, i)
    ELSE IF /\ At(s, <<"u","n","s","i","g","n","e","d">>, i)
            /\ SkipWs(s, i + 8) > i + 8
            /\ At(s, <<"l","o","n","g">>, SkipWs(s, i + 8))
         THEN SkipWs(s, i + 8) + 4
    ELSE 0

\* /^(void|int|float|double|bool|String)\s+\w+\s*\(/ (line 72)
IsFunctionLine(s) ==
    LET e == WordEnd(s, FuncTypes, 1)
        j == SkipWs(s, e)
        k == SkipWord(s, j)
        p == SkipWs(s, k)
    IN e # 0 /\ j > e /\ k > j /\ p <= Len(s) /\ s[p] = "("

NoMatch == [ok |-> FALSE]

\* /#define\s+(\w+)\s+(.+)/ from index i of a trimmed line (line 75)
defineAt(s, i) ==
    LET j == SkipWs(s, i + 7)
        k == SkipWord(s, j)
        m == SkipWs(s, k)
    IN IF At(s, <<"#","d","e","f","i","n","e">>, i) /\ j > i + 7 /\ k > j /\ m > k /\ m <= Len(s)
       THEN [ok |-> TRUE, name |-> Sub(s, j, k - 1), value |-> Sub(s, m, LineEnd(s, m))]
       ELSE NoMatch

defineMatch(s) ==
    LET i == First({i \in 1..Len(s) : defineAt(s, i).ok})
    IN IF i = 0 THEN NoMatch ELSE defineAt(s, i)

\* the last ; of the line from index i on, 0 when there is none
LastSemicolon(s, i) == Last({q \in i..LineEnd(s, i) : s[q] = ";"})

\* \s*(?:=\s*(.+))?; after a declared name that ends before index n:
\* (.+) is greedy, it runs to the last ; of the line
declTail(s, name, w) ==
    IF w <= Len(s) /\ s[w] = "=" /\ LastSemicolon(s, w + 2) # 0
    THEN [ok |-> TRUE, name |-> name, hasValue |-> TRUE,
          value |-> LET q == LastSemicolon(s, w + 2)
                        v == SkipWs(s, w + 1)
                    IN Sub(s, IF v < q THEN v ELSE q - 1, q - 1)]
    ELSE IF w <= Len(s) /\ s[w] = ";"
    THEN [ok |-> TRUE, name |-> name, hasValue |-> FALSE, value |-> <<>>]
    ELSE NoMatch

\* /^(?:const\s+)?(?:int|...)\s+(\w+)\s*(?:=\s*(.+))?;/ (line 82)
varMatchFrom(s, p) ==
    LET e == DeclTypeEnd(s, p)
        j == SkipWs(s, e)
        k == SkipWord(s, j)
    IN IF e # 0 /\ j > e /\ k > j
       THEN declTail(s, Sub(s, j, k - 1), SkipWs(s, k))
       ELSE NoMatch

varMatch(s) ==
    IF At(s, <<"c","o","n","s","t">>, 1) /\ SkipWs(s, 6) > 6 /\ varMatchFrom(s, SkipWs(s, 6)).ok
    THEN varMatchFrom(s, SkipWs(s, 6))
    ELSE varMatchFrom(s, 1)

\* ArduinoParser.extractGlobals, one line
globalOfLine(trimmed, tbl) ==
    IF IsFunctionLine(trimmed) THEN tbl
    ELSE IF startsWith(trimmed, <<"#">>)
    THEN IF defineMatch(trimmed).ok
         THEN SetVar(tbl, defineMatch(trimmed).name,
                     parseValue(trim(defineMatch(trimmed).value), tbl))
         ELSE tbl
    ELSE IF varMatch(trimmed).ok
    THEN SetVar(tbl, varMatch(trimmed).name,
                IF varMatch(trimmed).hasValue
                THEN parseValue(trim(varMatch(trimmed).value), tbl)
                ELSE Num(0))
    ELSE tbl

RECURSIVE globalsFrom(_, _, _)
globalsFrom(lines, i, tbl) ==
    IF i > Len(lines) THEN tbl
    ELSE globalsFrom(lines, i + 1, globalOfLine(trim(lines[i]), tbl))

\* ArduinoParser.extractGlobals: every line of the code is looked at
extractGlobals(code, tbl) == globalsFrom(split(code, <<NL>>), 1, tbl)

\* depth after the loop of extractBlock has looked at the indices a..i
depthAt(code, a, i) ==
    Cardinality({k \in a..i : code[k] = "{"}) - Cardinality({k \in a..i : code[k] = "}"})

\* the closing brace at which extractBlock returns (depth back at 0), or 0
blockClose(code, a) ==
    First({i \in a..Len(code) : code[i] = "}" /\ depthAt(code, a, i) = 0})

\* start: the index after the last opening brace met at depth 0
blockStart(code, a, close) ==
    Last({j \in a..close : code[j] = "{" /\ depthAt(code, a, j - 1) = 0}) + 1

\* (blockFrom_mut: a block left open gives the text up to the end.)
blockFrom_mut(code, a, close) ==
    IF close = 0 THEN trim(Sub(code, a + 1, Len(code)))
    ELSE trim(Sub(code, blockStart(code, a, close), close - 1))
\* lines 102 and 106: the text between the braces, or '' when the loop ends
\* with the block open
blockFrom(code, a, close) ==
    IF close = 0 THEN <<>> ELSE trim(Sub(code, blockStart(code, a, close), close - 1))

\* ArduinoParser.extractBlock; startIdx is an index of the sequence and the
\* callers pass the index of an opening brace.
extractBlock(code, startIdx) == blockFrom(code, startIdx, blockClose(code, startIdx))

\* ---- ArduinoParser.tokenize
\* /^(if|else if|else|for|while)\b/ (line 121)
BlockWords == {<<"i","f">>, <<"e","l","s","e">>, <<"f","o","r">>, <<"w","h","i","l","e">>}
IsBlockLine(line) ==
    \E w \in BlockWords :
        At(line, w, 1) /\ (Len(line) = Len(w) \/ line[Len(w) + 1] \notin WordChars)

\* opening braces less closing braces of a line (lines 130, 134, 135)
braceBalance(line) == Count(line, "{") - Count(line, "}")

RECURSIVE gatherBlock(_, _, _, _)
\* the while loop of lines 131-136: lines are added while braces are open;
\* the result is the block and the index of the last line it took
gatherBlock(lines, i, block, braceCount) ==
    IF braceCount > 0 /\ i + 1 <= Len(lines)
    THEN gatherBlock(lines, i + 1, block \o <<NL>> \o trim(lines[i + 1]),
                     braceCount + braceBalance(lines[i + 1]))
    ELSE [block |-> block, i |-> i]

\* the block that starts with the block line at index i
blockOfLine(lines, line, i) ==
    IF ~includes(line, <<"{">>)
    THEN IF i + 1 <= Len(lines)
         THEN [block |-> line \o <<NL>> \o trim(lines[i + 1]), i |-> i + 1]
         ELSE [block |-> line, i |-> i]
    ELSE gatherBlock(lines, i, line, braceBalance(line))

RECURSIVE tokenizeFrom(_, _, _)
tokenizeLine(lines, line, i, acc) ==
    IF line \in {<<>>, <<"{">>, <<"}">>} THEN tokenizeFrom(lines, i + 1, acc)
    ELSE IF IsBlockLine(line)
    THEN tokenizeFrom(lines, blockOfLine(lines, line, i).i + 1,
                      Append(acc, blockOfLine(lines, line, i).block))
    ELSE IF dropSemicolon(line) # <<>>
    THEN tokenizeFrom(lines, i + 1, Append(acc, dropSemicolon(line)))
    ELSE tokenizeFrom(lines, i + 1, acc)

tokenizeFrom(lines, i, acc) ==
    IF i > Len(lines) THEN acc ELSE tokenizeLine(lines, trim(lines[i]), i, acc)

\* ArduinoParser.tokenize: the statements of a block, in order
tokenize(code) == tokenizeFrom(split(code, <<NL>>), 1, <<>>)

\* ---- the routines and the function table
\* /void\s+setup\s*\(\s*\)\s*\{/ at index i: the index of its brace, or 0
routineAt(code, name, i) ==
    LET j == SkipWs(code, i + 4)
        k == SkipWs(code, j + Len(name))
        m == SkipWs(code, k + 1)
        b == SkipWs(code, m + 1)
    IN IF /\ At(code, <<"v","o","i","d">>, i) /\ j > i + 4 /\ At(code, name, j)
          /\ At(code, <<"(">>, k) /\ At(code, <<")">>, m) /\ At(code, <<"{">>, b)
       THEN b ELSE 0

\* code.match(...) of lines 35 and 42: the first place where it matches
routineBrace(code, name) ==
    LET i == First({i \in 1..Len(code) : routineAt(code, name, i) # 0})
    IN IF i = 0 THEN 0 ELSE routineAt(code, name, i)

\* lines 35-39 and 42-46: the statements of setup or loop, none without a match
routineCode(code, name) ==
    IF routineBrace(code, name) = 0 THEN <<>>
    ELSE tokenize(extractBlock(code, routineBrace(code, name)))

\* funcRegex of line 49 at index i: the name, the parameter text, the brace
funcAt(code, i) ==
    LET e == WordEnd(code, DefTypes, i)
        j == SkipWs(code, e)
        k == SkipWord(code, j)
        p == SkipWs(code, k)
        c == indexFrom(code, <<")">>, p + 1)
        b == SkipWs(code, c + 1)
    IN IF /\ e # 0 /\ j > e /\ k > j /\ At(code, <<"(">>, p) /\ c # 0 /\ At(code, <<"{">>, b)
       THEN [ok |-> TRUE, name |-> Sub(code, j, k - 1), params |-> Sub(code, p + 1, c - 1),
             brace |-> b]
       ELSE NoMatch

\* p.trim().split(/\s+/).pop(): the text after the last white space
lastWord(p) == Sub(p, Last({i \in 1..Len(p) : p[i] \in SpaceChars}) + 1, Len(p))

RECURSIVE paramNames(_, _, _)
\* funcMatch[2].split(',').map(...).filter(Boolean) (line 56)
paramNames(pieces, i, acc) ==
    IF i > Len(pieces) THEN acc
    ELSE paramNames(pieces, i + 1,
                    IF lastWord(trim(pieces[i])) = <<>> THEN acc
                    ELSE Append(acc, lastWord(trim(pieces[i]))))

functionOf(code, m) ==
    [params |-> paramNames(split(m.params, <<",">>), 1, <<>>),
     body |-> tokenize(extractBlock(code, m.brace))]

RECURSIVE functionsFrom(_, _, _)
functionsNext(code, i, tbl) ==
    IF i = 0 THEN tbl
    ELSE functionsFrom(code, funcAt(code, i).brace + 1,
                       IF funcAt(code, i).name \in {<<"s","e","t","u","p">>, <<"l","o","o","p">>} THEN tbl
                       ELSE SetVar(tbl, funcAt(code, i).name, functionOf(code, funcAt(code, i))))

\* the while loop of lines 51-60: funcRegex.exec goes on after each match
functionsFrom(code, from, tbl) ==
    functionsNext(code, First({i \in from..Len(code) : funcAt(code, i).ok}), tbl)

\* the four tables of a parser as constructed
newParser ==
    [variables |-> NoTable, functions |-> NoTable, setupCode |-> <<>>, loopCode |-> <<>>]

\* ArduinoParser.parse on a parser whose four tables are prev: lines 22-25
\* empty them, then they are filled from the code
resetTables_mut(prev) == prev
resetTables(prev) ==
    [variables |-> NoTable, functions |-> NoTable, setupCode |-> <<>>, loopCode |-> <<>>]

parseInto(tables, code) ==
    [variables |-> extractGlobals(code, tables.variables),
     functions |-> functionsFrom(code, 1, tables.functions),
     setupCode |-> IF routineBrace(code, <<"s","e","t","u","p">>) = 0 THEN tables.setupCode
                   ELSE routineCode(code, <<"s","e","t","u","p">>),
     loopCode |-> IF routineBrace(code, <<"l","o","o","p">>) = 0 THEN tables.loopCode
                  ELSE routineCode(code, <<"l","o","o","p">>)]

parseCode(prev, code) == parseInto(resetTables(prev), removeComments(code))

\* ---- ArduinoParser.evaluateExpr
\* Values this model does not compute (library calls other than map,
\* fractions, arithmetic on values that are not integers): no text explored
\* evaluates to it.
Unmodelled == [t |-> "unmodelled", n |-> 0]

IsNum(v) == v.t = "number"

\* !!v
Truthy(v) ==
    CASE v.t = "number" -> v.n # 0
      [] v.t = "string" -> v.s # <<>>
      [] v.t = "function" -> TRUE
      [] v.t = "Infinity" -> TRUE
      [] v.t \in {"NaN", "undefined"} -> FALSE

\* a / b in JavaScript for integers a and b
Quotient(a, b) ==
    IF b = 0 THEN (IF a = 0 THEN NaN ELSE Infinity(IF a > 0 THEN 1 ELSE -1))
    ELSE IF b > 0 THEN (IF a % b = 0 THEN Num(a \div b) ELSE Ratio(a, b))
    ELSE IF (-a) % (-b) = 0 THEN Num((-a) \div (-b)) ELSE Ratio(-a, -b)

\* a % b in JavaScript for integers: the sign of the dividend
Remainder(a, b) ==
    LET m == IF b < 0 THEN -b ELSE b
    IN IF b = 0 THEN NaN
       ELSE IF a >= 0 THEN Num(a % m) ELSE Num(-((-a) % m))

\* the binary operators of an arithmetic expression on two values
Arith(o, a, b) ==
    IF ~IsNum(a) \/ ~IsNum(b) THEN Unmodelled
    ELSE CASE o = "+" -> Num(a.n + b.n)
           [] o = "-" -> Num(a.n - b.n)
           [] o = "*" -> Num(a.n * b.n)
           [] o = "/" -> Quotient(a.n, b.n)
           [] o = "%" -> Remainder(a.n, b.n)

\* Math.round(p / q + c) for integers: the nearest integer, a tie going up
\* (RoundQuotient_mut: Math.floor in its place.)
RoundQuotient_mut(p, q, c) ==
    IF q > 0 THEN Num((p \div q) + c)
    ELSE Num(((-p) \div (-q)) + c)
RoundQuotient(p, q, c) ==
    IF q > 0 THEN Num(((2 * p + q) \div (2 * q)) + c)
    ELSE Num(((2 * (-p) + (-q)) \div (2 * (-q))) + c)

\* Math.round((val - inMin) * (outMax - outMin) / (inMax - inMin) + outMin)
mapRound(val, inMin, inMax, outMin, outMax) ==
    IF inMax = inMin
    THEN (IF (val - inMin) * (outMax - outMin) = 0 THEN NaN
          ELSE Infinity(IF (val - inMin) * (outMax - outMin) > 0 THEN 1 ELSE -1))
    ELSE RoundQuotient((val - inMin) * (outMax - outMin), inMax - inMin, outMin)

\* ---- the text handed to Function(...) at line 560
\* The tokens of JavaScript in a text of the characters that line 559 lets
\* through: numbers, the operators (++ and -- are single tokens), brackets.
ArithChars == DigitChars \cup SpaceChars \cup {"+", "-", "*", "/", "%", ".", "(", ")"}

RECURSIVE jsTokens(_, _, _)
jsTokens(s, i, acc) ==
    IF i > Len(s) THEN acc
    ELSE IF s[i] \in SpaceChars THEN jsTokens(s, SkipWs(s, i), acc)
    ELSE IF s[i] \in DigitChars
         THEN jsTokens(s, SkipClass(s, DigitChars, i),
                       Append(acc, [q |-> "number",
                                    s |-> Sub(s, i, SkipClass(s, DigitChars, i) - 1)]))
    ELSE IF At(s, <<"+","+">>, i) \/ At(s, <<"-","-">>, i) \/ At(s, <<"*","*">>, i) \/ At(s, <<"/","/">>, i)
            \/ At(s, <<"/","*">>, i)
         THEN jsTokens(s, i + 2, Append(acc, [q |-> "other", s |-> Sub(s, i, i + 1)]))
    ELSE jsTokens(s, i + 1, Append(acc, [q |-> s[i], s |-> <<s[i]>>]))

\* a parse: the value and the index of the next token; a SyntaxError
Value(v, next) == [ok |-> TRUE, v |-> v, next |-> next]
SyntaxError == [ok |-> FALSE, v |-> Num(0), next |-> 0]
Is(ts, i, q) == i <= Len(ts) /\ ts[i].q = q

\* a decimal literal; strict mode rejects a leading zero before digits
numberValue(s) == IF Len(s) > 1 /\ s[1] = "0" THEN SyntaxError ELSE Value(Num(NatOf(s, 1, 0)), 0)

RECURSIVE additive(_, _), additiveRest(_, _), multiplicative(_, _),
          multiplicativeRest(_, _), unary(_, _), negated(_), bracketed(_, _),
          additiveAfter(_, _, _), multiplicativeAfter(_, _, _)
additive(ts, i) == additiveRest(ts, multiplicative(ts, i))

additiveRest(ts, l) ==
    IF ~l.ok THEN SyntaxError
    ELSE IF Is(ts, l.next, "+") \/ Is(ts, l.next, "-")
    THEN additiveAfter(ts, l, multiplicative(ts, l.next + 1))
    ELSE l

additiveAfter(ts, l, r) ==
    IF ~r.ok THEN SyntaxError
    ELSE additiveRest(ts, Value(Arith(ts[l.next].q, l.v, r.v), r.next))

multiplicative(ts, i) == multiplicativeRest(ts, unary(ts, i))

multiplicativeRest(ts, l) ==
    IF ~l.ok THEN SyntaxError
    ELSE IF Is(ts, l.next, "*") \/ Is(ts, l.next, "/") \/ Is(ts, l.next, "%")
    THEN multiplicativeAfter(ts, l, unary(ts, l.next + 1))
    ELSE l

multiplicativeAfter(ts, l, r) ==
    IF ~r.ok THEN SyntaxError
    ELSE multiplicativeRest(ts, Value(Arith(ts[l.next].q, l.v, r.v), r.next))

negated(r) == IF ~r.ok THEN SyntaxError ELSE Value(Arith("-", Num(0), r.v), r.next)

bracketed(ts, r) ==
    IF r.ok /\ Is(ts, r.next, ")") THEN Value(r.v, r.next + 1) ELSE SyntaxError

unary(ts, i) ==
    IF Is(ts, i, "-") THEN negated(unary(ts, i + 1))
    ELSE IF Is(ts, i, "+") THEN unary(ts, i + 1)
    ELSE IF Is(ts, i, "number")
         THEN (IF numberValue(ts[i].s).ok THEN Value(numberValue(ts[i].s).v, i + 1)
               ELSE SyntaxError)
    ELSE IF Is(ts, i, "(") THEN bracketed(ts, additive(ts, i + 1))
    ELSE SyntaxError

wholeExpression(ts, r) == IF r.ok /\ r.next = Len(ts) + 1 THEN r ELSE SyntaxError

\* Function(`"use strict"; return (${evalExpr})`)(): the value, or a
\* SyntaxError, which line 562 catches
jsArithmetic(ts) ==
    IF \E k \in 1..Len(ts) : ts[k].q \in {".", "other"} /\ ts[k].s \notin {<<"+","+">>, <<"-","-">>}
    THEN Value(Unmodelled, 0)
    ELSE wholeExpression(ts, additive(ts, 1))

\* ---- the replacements of lines 546-556
\* \bname\b matches a longest run of word characters that is the name.  A
\* run that names a variable holding a number gives way to its text (no
\* variable here is named like a number), HIGH/true and LOW/false to 1 and 0.
wordValue(w, allVars) ==
    IF w \in DOMAIN allVars /\ IsNum(allVars[w]) THEN IntText(allVars[w].n)
    ELSE IF w \in {<<"H","I","G","H">>, <<"t","r","u","e">>} THEN <<"1">>
    ELSE IF w \in {<<"L","O","W">>, <<"f","a","l","s","e">>} THEN <<"0">>
    ELSE w

RECURSIVE replaceWords(_, _, _, _)
replaceWords(s, allVars, i, acc) ==
    IF i > Len(s) THEN acc
    ELSE IF s[i] \in WordChars
         THEN replaceWords(s, allVars, SkipWord(s, i),
                           acc \o wordValue(Sub(s, i, SkipWord(s, i) - 1), allVars))
    ELSE replaceWords(s, allVars, i + 1, Append(acc, s[i]))

\* { ...this.variables, ...localVars }: the own entries, locals on top
spread(globals, localVars) == localVars @@ globals

\* lines 540-566: the value of the arithmetic, 0 when the text is no
\* arithmetic or does not parse
arithmeticOf(evalExpr) ==
    IF evalExpr # <<>> /\ \A k \in 1..Len(evalExpr) : evalExpr[k] \in ArithChars
    THEN (IF jsArithmetic(jsTokens(evalExpr, 1, <<>>)).ok
          THEN jsArithmetic(jsTokens(evalExpr, 1, <<>>)).v
          ELSE Num(0))
    ELSE Num(0)

arithmeticFallback(expr, localVars, globals) ==
    arithmeticOf(replaceWords(expr, spread(globals, localVars), 1, <<>>))

\* ---- the calls evaluateExpr knows
\* What must follow the last lazy group (.+?) that ends at index e:
\* \s*\) for a call, \s*\)\s*\{ and a closing brace later for a block.
closesCall(s, e) == At(s, <<")">>, SkipWs(s, e + 1))
braceAfter(s, e) == SkipWs(s, SkipWs(s, e + 1) + 1)
closesHead(s, e) ==
    closesCall(s, e) /\ At(s, <<"{">>, braceAfter(s, e))
        /\ indexFrom(s, <<"}">>, braceAfter(s, e) + 1) # 0

RECURSIVE lazyGroups(_, _, _, _, _)
\* Lazy groups (.+?) from index i on, the characters seps between them
\* (white space before and after each) and head telling what follows the
\* last: the first match in the order a backtracking matcher tries them.
\* . matches no line break.  end is the index where the last group ends.
lazyGroupsAt(s, i, seps, head, acc, e) ==
    IF e = 0 THEN NoMatch
    ELSE IF seps = <<>> THEN [ok |-> TRUE, groups |-> Append(acc, Sub(s, i, e)), end |-> e]
    ELSE lazyGroups(s, SkipWs(s, SkipWs(s, e + 1) + 1), Tail(seps), head,
                    Append(acc, Sub(s, i, e)))

lazyGroups(s, i, seps, head, acc) ==
    IF seps = <<>>
    THEN lazyGroupsAt(s, i, seps, head, acc,
                      First({e \in i..LineEnd(s, i) :
                               IF head THEN closesHead(s, e) ELSE closesCall(s, e)}))
    ELSE lazyGroupsAt(s, i, seps, head, acc,
                      First({e \in i..LineEnd(s, i) :
                               /\ At(s, <<seps[1]>>, SkipWs(s, e + 1))
                               /\ lazyGroups(s, SkipWs(s, SkipWs(s, e + 1) + 1), Tail(seps),
                                             head, <<>>).ok}))

\* /^name\s*\(\s*(.+?)\s*,  ...  ,\s*(.+?)\s*\)/ with Len(seps) + 1 groups
callMatch(s, name, seps) ==
    IF At(s, name, 1) /\ At(s, <<"(">>, SkipWs(s, Len(name) + 1))
    THEN lazyGroups(s, SkipWs(s, SkipWs(s, Len(name) + 1) + 1), seps, FALSE, <<>>)
    ELSE NoMatch

\* /^name\s*\(\s*(.+?)\s*;  ...  \s*\)\s*\{([\s\S]*)\}/: the groups, and the
\* body between the brace and the last (greedy) or the first closing brace
headMatch(s, from, name, seps, greedy) ==
    LET m == IF At(s, name, from) /\ At(s, <<"(">>, SkipWs(s, from + Len(name)))
             THEN lazyGroups(s, SkipWs(s, SkipWs(s, from + Len(name)) + 1), seps, TRUE, <<>>)
             ELSE NoMatch
    IN IF ~m.ok THEN NoMatch
       ELSE LET b == braceAfter(s, m.end)
                c == IF greedy THEN Last({k \in (b + 1)..Len(s) : s[k] = "}"})
                     ELSE indexFrom(s, <<"}">>, b + 1)
            IN [ok |-> TRUE, groups |-> m.groups, body |-> Sub(s, b + 1, c - 1),
                rest |-> Sub(s, c + 1, Len(s))]

FourCommas == <<",", ",", ",", ",">>

\* the other calls of lines 469-534, each anchored at the start of the text
LibraryCalls ==
    {<<"d","i","g","i","t","a","l","R","e","a","d">>, <<"a","n","a","l","o","g","R","e","a","d">>, <<"c","o","n","s","t","r","a","i","n">>, <<"r","a","n","d","o","m">>, <<"a","b","s">>, <<"s","q","r","t">>, <<"m","i","n">>, <<"m","a","x">>,
     <<"p","o","w">>, <<"i","s","n","a","n">>}
IsLibraryCall(s) ==
    \E name \in LibraryCalls :
        /\ At(s, name, 1)
        /\ At(s, <<"(">>, SkipWs(s, Len(name) + 1))
        /\ includes(s, <<")">>)

Quote == <<"\"">>
Apostrophe == <<"'">>

\* lines 454-457: a text between two quotes, whatever stands between them
IsStringLiteral(expr) ==
    \/ startsWith(expr, Quote) /\ endsWith(expr, Quote)
    \/ startsWith(expr, Apostrophe) /\ endsWith(expr, Apostrophe)

\* Math.floor((Date.now() - this.startTime) * this.speed), lines 459-467
millis == (clock - parserStartTime) * parserSpeed

RECURSIVE evaluateExpr(_, _, _)
mapValue(g, localVars, globals) ==
    LET val == evaluateExpr(g[1], localVars, globals)
        inMin == evaluateExpr(g[2], localVars, globals)
        inMax == evaluateExpr(g[3], localVars, globals)
        outMin == evaluateExpr(g[4], localVars, globals)
        outMax == evaluateExpr(g[5], localVars, globals)
    IN IF \A v \in {val, inMin, inMax, outMin, outMax} : IsNum(v)
       THEN mapRound(val.n, inMin.n, inMax.n, outMin.n, outMax.n)
       ELSE Unmodelled

\* ArduinoParser.evaluateExpr on a trimmed text, in the order of its tests
evaluateTrimmed(expr, localVars, globals) ==
    IF expr \in {<<"H","I","G","H">>, <<"t","r","u","e">>} THEN Num(1)
    ELSE IF expr \in {<<"L","O","W">>, <<"f","a","l","s","e">>} THEN Num(0)
    ELSE IF expr \in {<<"I","N","P","U","T">>, <<"O","U","T","P","U","T">>, <<"I","N","P","U","T","_","P","U","L","L","U","P">>} THEN Str(expr)
    ELSE IF IsIntText(expr) THEN IntOf(expr)
    ELSE IF IsStringLiteral(expr) THEN Str(Sub(expr, 2, Len(expr) - 1))
    ELSE IF expr = <<"m","i","l","l","i","s","(",")">> THEN Num(millis)
    ELSE IF expr = <<"m","i","c","r","o","s","(",")">> THEN Num(millis * 1000)
    ELSE IF callMatch(expr, <<"m","a","p">>, FourCommas).ok
         THEN mapValue(callMatch(expr, <<"m","a","p">>, FourCommas).groups, localVars, globals)
    ELSE IF IsLibraryCall(expr) THEN Unmodelled
    ELSE IF has(localVars, expr) THEN get(localVars, expr)
    ELSE IF has(globals, expr) THEN get(globals, expr)
    ELSE arithmeticFallback(expr, localVars, globals)

evaluateExpr(expr, localVars, globals) == evaluateTrimmed(trim(expr), localVars, globals)

\* ---- ArduinoParser.evaluateCondition
ComparisonOps == <<<<">","=">>, <<"<","=">>, <<"!","=">>, <<"=","=">>, <<">">>, <<"<">>>>

\* the first operator of the list that occurs in the text (lines 413-415)
comparisonOp(expr) == First({k \in 1..Len(ComparisonOps) : includes(expr, ComparisonOps[k])})

\* lines 418-425 on two integers or on two strings
compare(o, left, right) ==
    CASE IsNum(left) /\ IsNum(right) ->
            CASE o = <<"=","=">> -> left.n = right.n
              [] o = <<"!","=">> -> left.n # right.n
              [] o = <<">">> -> left.n > right.n
              [] o = <<"<">> -> left.n < right.n
              [] o = <<">","=">> -> left.n >= right.n
              [] o = <<"<","=">> -> left.n <= right.n
      [] left.t = "string" /\ right.t = "string" /\ o = <<"=","=">> -> left.s = right.s
      [] left.t = "string" /\ right.t = "string" /\ o = <<"!","=">> -> left.s # right.s

comparison(expr, o, localVars, globals) ==
    compare(o, evaluateExpr(Sub(expr, 1, indexOf(expr, o) - 1), localVars, globals),
            evaluateExpr(Sub(expr, indexOf(expr, o) + Len(o), Len(expr)), localVars, globals))

\* The two operators a condition is split on, in the order of the tests of
\* lines 397 and 403.
\* (LogicalOps_mut: || tested first.)
LogicalOps_mut == <<<<"|","|">>, <<"&","&">>>>
LogicalOps == <<<<"&","&">>, <<"|","|">>>>

RECURSIVE evaluateCondition(_, _, _)
\* lines 398-400 and 404-406: every part holds, some part holds
junction(o, expr, localVars, globals) ==
    IF o = <<"&","&">>
    THEN \A k \in 1..Len(split(expr, o)) : evaluateCondition(split(expr, o)[k], localVars, globals)
    ELSE \E k \in 1..Len(split(expr, o)) : evaluateCondition(split(expr, o)[k], localVars, globals)

conditionTrimmed(expr, localVars, globals) ==
    IF includes(expr, LogicalOps[1]) THEN junction(LogicalOps[1], expr, localVars, globals)
    ELSE IF includes(expr, LogicalOps[2]) THEN junction(LogicalOps[2], expr, localVars, globals)
    ELSE IF startsWith(expr, <<"!">>)
    THEN ~evaluateCondition(Sub(expr, 2, Len(expr)), localVars, globals)
    ELSE IF comparisonOp(expr) # 0
    THEN comparison(expr, ComparisonOps[comparisonOp(expr)], localVars, globals)
    ELSE Truthy(evaluateExpr(expr, localVars, globals))

evaluateCondition(expr, localVars, globals) ==
    conditionTrimmed(trim(expr), localVars, globals)

\* ---- the statement forms of ArduinoParser.executeStatement
\* /^delay\s*\(\s*(.+)\s*\)/: the greedy group runs to the last closing
\* bracket of its line (lines 166, 174)
delayMatch(stmt, name) ==
    LET p == SkipWs(stmt, Len(name) + 1)
        a == SkipWs(stmt, p + 1)
        c == Last({k \in (a + 1)..LineEnd(stmt, a) : stmt[k] = ")"})
    IN IF At(stmt, name, 1) /\ At(stmt, <<"(">>, p) /\ a <= Len(stmt) /\ c # 0
       THEN [ok |-> TRUE, arg |-> Sub(stmt, a, c - 1)]
       ELSE NoMatch

\* The statements of lines 182-285 that write to the serial port or to a
\* pin; executeStatement over statement records models what they do.
TwoArgCalls == {<<"p","i","n","M","o","d","e">>, <<"d","i","g","i","t","a","l","W","r","i","t","e">>, <<"a","n","a","l","o","g","W","r","i","t","e">>, <<"l","e","d","c","W","r","i","t","e">>, <<"t","o","n","e">>}
IsIoStatement(stmt) ==
    \/ At(stmt, <<"S","e","r","i","a","l",".","b","e","g","i","n">>, 1) /\ At(stmt, <<"(">>, SkipWs(stmt, 13))
    \/ \E name \in {<<"S","e","r","i","a","l",".","p","r","i","n","t">>, <<"S","e","r","i","a","l",".","p","r","i","n","t","l","n">>, <<"S","e","r","i","a","l",".","p","r","i","n","t","f">>} :
          /\ At(stmt, name, 1)
          /\ At(stmt, <<"(">>, SkipWs(stmt, Len(name) + 1))
          /\ indexFrom(stmt, <<")">>, SkipWs(stmt, Len(name) + 1)) # 0
    \/ \E name \in TwoArgCalls : callMatch(stmt, name, <<",">>).ok
    \/ callMatch(stmt, <<"n","o","T","o","n","e">>, <<>>).ok

AssignOps == {"+", "-", "*", "/"}

\* (\w+)\s*([\+\-\*\/]?=)\s*(.+) from index j (line 288)
assignAt(stmt, j) ==
    LET k == SkipWord(stmt, j)
        w == SkipWs(stmt, k)
        compound == w + 1 <= Len(stmt) /\ stmt[w] \in AssignOps /\ stmt[w + 1] = "="
        simple == w <= Len(stmt) /\ stmt[w] = "="
        after == IF compound THEN w + 2 ELSE w + 1
        v == SkipWs(stmt, after)
    IN IF k > j /\ (compound \/ simple) /\ v <= Len(stmt)
       THEN [ok |-> TRUE, name |-> Sub(stmt, j, k - 1),
             op |-> IF compound THEN stmt[w] ELSE "=",
             expr |-> trim(Sub(stmt, v, LineEnd(stmt, v)))]
       ELSE NoMatch

\* /^(?:(?:int|...)\s+)?(\w+)\s*([\+\-\*\/]?=)\s*(.+)/: with the type when
\* that matches, else from the start
assignMatch(stmt) ==
    LET e == DeclTypeEnd(stmt, 1)
        j == SkipWs(stmt, e)
    IN IF e # 0 /\ j > e /\ assignAt(stmt, j).ok THEN assignAt(stmt, j)
       ELSE assignAt(stmt, 1)

\* /^(\w+)\s*(\+\+|--)$/ (line 307)
incMatch(stmt) ==
    LET k == SkipWord(stmt, 1)
        w == SkipWs(stmt, k)
    IN IF k > 1 /\ w + 1 = Len(stmt) /\ (At(stmt, <<"+","+">>, w) \/ At(stmt, <<"-","-">>, w))
       THEN [ok |-> TRUE, name |-> Sub(stmt, 1, k - 1), op |-> stmt[w]]
       ELSE NoMatch

\* line 317
IsIfElse(stmt) == startsWith(stmt, <<"i","f">>) \/ startsWith(stmt, <<"e","l","s","e">>)

\* /^(?:else\s+)?if\s*\(\s*(.+?)\s*\)\s*\{([\s\S]*?)\}([\s\S]*)/ (line 370):
\* the body ends at the first closing brace
ifMatch(stmt) ==
    IF At(stmt, <<"e","l","s","e">>, 1) /\ SkipWs(stmt, 5) > 5 /\ At(stmt, <<"i","f">>, SkipWs(stmt, 5))
    THEN headMatch(stmt, SkipWs(stmt, 5), <<"i","f">>, <<>>, FALSE)
    ELSE headMatch(stmt, 1, <<"i","f">>, <<>>, FALSE)

\* /^else\s*\{([\s\S]*)\}/ (line 385): the body ends at the last closing brace
elseMatch(stmt) ==
    LET b == SkipWs(stmt, 5)
        c == Last({k \in (b + 1)..Len(stmt) : stmt[k] = "}"})
    IN IF At(stmt, <<"e","l","s","e">>, 1) /\ At(stmt, <<"{">>, b) /\ c # 0
       THEN [ok |-> TRUE, body |-> Sub(stmt, b + 1, c - 1)]
       ELSE NoMatch

\* lines 323 and 336
forMatch(stmt) == headMatch(stmt, 1, <<"f","o","r">>, <<";", ";">>, TRUE)
whileMatch(stmt) == headMatch(stmt, 1, <<"w","h","i","l","e">>, <<>>, TRUE)

\* /^(\w+)\s*\(\s*(.*?)\s*\)/ (line 349): the lazy group ends before the
\* first closing bracket and the white space in front of it
funcCallMatch(stmt) ==
    LET k == SkipWord(stmt, 1)
        p == SkipWs(stmt, k)
        a == SkipWs(stmt, p + 1)
        c == indexFrom(stmt, <<")">>, a)
    IN IF k > 1 /\ At(stmt, <<"(">>, p) /\ c # 0
          /\ \A x \in a..(c - 1) : stmt[x] # NL \/ \A y \in x..(c - 1) : stmt[y] \in SpaceChars
       THEN [ok |-> TRUE, name |-> Sub(stmt, 1, k - 1), args |-> trim(Sub(stmt, a, c - 1))]
       ELSE NoMatch

\* depth of brackets before index i, as splitArgs counts it
bracketDepth(s, i) ==
    Cardinality({k \in 1..(i - 1) : s[k] = "("}) - Cardinality({k \in 1..(i - 1) : s[k] = ")"})

RECURSIVE splitArgsFrom(_, _, _, _)
\* the arguments from index i on, n the next comma outside brackets
splitArgsFrom(s, i, n, acc) ==
    IF n = 0
    THEN (IF trim(Sub(s, i, Len(s))) # <<>> THEN Append(acc, trim(Sub(s, i, Len(s)))) ELSE acc)
    ELSE splitArgsFrom(s, n + 1,
                       First({k \in (n + 1)..Len(s) : s[k] = "," /\ bracketDepth(s, k) = 0}),
                       Append(acc, trim(Sub(s, i, n - 1))))

\* ArduinoParser.splitArgs
splitArgs(s) ==
    splitArgsFrom(s, 1, First({k \in 1..Len(s) : s[k] = "," /\ bracketDepth(s, k) = 0}), <<>>)

\* ---- a run over source text
\* The continuation of a run is a stack of frames, the innermost last:
\*   engine: Engine.start, at setup, at its while test, in a loop pass or
\*           awaiting the timer of line 72
\*   block:  ArduinoParser.execute before statements[i], with its localVars
\*   for, while: the loops of lines 326 and 339
\* localVars objects are the entries of scopes; a frame holds the index of
\* its own.  trace lists the statements the run has executed.
EngineFrame(pc) == [k |-> "engine", pc |-> pc]
BlockFrame(stmts, sc, own) == [k |-> "block", stmts |-> stmts, i |-> 1, sc |-> sc, own |-> own]
ForFrame(m, sc) ==
    [k |-> "for", pc |-> "test", cond |-> m.groups[2], body |-> m.body, step |-> m.groups[3],
     sc |-> sc]
WhileFrame(m, sc) ==
    [k |-> "while", pc |-> "test", cond |-> m.groups[1], body |-> m.body, iterations |-> 0,
     sc |-> sc]

\* F applied to the value of v
Then(v, F(_)) == CHOOSE y \in {F(x) : x \in {v}} : TRUE

Top(st) == st.frames[Len(st.frames)]
Push(st, f) == [st EXCEPT !.frames = Append(@, f)]
SetTop(st, f) == [st EXCEPT !.frames[Len(st.frames)] = f]
\* a frame returns; the localVars a call or a pass created goes with it
PopFrame(st) ==
    [st EXCEPT !.frames = SubSeq(@, 1, Len(@) - 1),
               !.scopes = IF Top(st).k = "block" /\ Top(st).own
                          THEN SubSeq(@, 1, Len(@) - 1) ELSE @]
Sleep(st, ms) == [st EXCEPT !.res = "sleep", !.ms = ms]
Throw(st, msg) == [st EXCEPT !.res = "throw", !.msg = msg]

\* String(v) for the values a sketch can hold
NativeCode == "() { [native code] }"
ToText(v) ==
    CASE v.t = "number" -> IntText(v.n)
      [] v.t = "string" -> v.s
      [] v.t = "function" -> <<"f","u","n","c","t","i","o","n"," ">> \o v.s \o <<NativeCode>>

\* a + b, a - b, a * b, a / b of lines 298-301, 311 and 312
jsBinary(o, a, b) ==
    IF IsNum(a) /\ IsNum(b) THEN Arith(o, a, b)
    ELSE IF o = "+" /\ {a.t, b.t} \subseteq {"number", "string", "function"}
    THEN Str(ToText(a) \o ToText(b))
    ELSE Unmodelled

\* target[name] || 0
orZero(v) == IF Truthy(v) THEN v ELSE Num(0)

\* name in localVars (lines 295 and 310)
\* (writesLocal_mut: the table is chosen by the type in front of the name.)
writesLocal_mut(localVars, name) == FALSE
writesLocal(localVars, name) == has(localVars, name)

\* lines 296-302: what the target holds under the name afterwards
assigned(o, prior, value) == IF o = "=" THEN value ELSE jsBinary(o, orZero(prior), value)

\* the tables after target[name] = v
Store(st, sc, name, v) ==
    IF writesLocal(st.scopes[sc], name)
    THEN [st EXCEPT !.scopes[sc] = SetVar(@, name, v)]
    ELSE [st EXCEPT !.globals = SetVar(@, name, v)]

Target(st, sc, name) == IF writesLocal(st.scopes[sc], name) THEN st.scopes[sc] ELSE st.globals

\* lines 289-304
executeAssign(st, m, sc) ==
    Store(st, sc, m.name,
          assigned(m.op, get(Target(st, sc, m.name), m.name),
                   evaluateExpr(m.expr, st.scopes[sc], st.globals)))

\* lines 308-314
executeInc(st, m, sc) ==
    Store(st, sc, m.name, jsBinary(m.op, orZero(get(Target(st, sc, m.name), m.name)), Num(1)))

RECURSIVE executeIfElse(_, _, _)
\* ArduinoParser.executeIfElse: the body of the branch taken becomes the
\* innermost block
ifBranch(st, m, sc) ==
    IF evaluateCondition(m.groups[1], st.scopes[sc], st.globals)
    THEN Push(st, BlockFrame(tokenize(m.body), sc, FALSE))
    ELSE IF startsWith(trim(m.rest), <<"e","l","s","e">>) THEN executeIfElse(st, trim(m.rest), sc)
    ELSE st

executeIfElse(st, stmt, sc) ==
    IF ifMatch(stmt).ok THEN ifBranch(st, ifMatch(stmt), sc)
    ELSE IF elseMatch(stmt).ok THEN Push(st, BlockFrame(tokenize(elseMatch(stmt).body), sc, FALSE))
    ELSE st

\* funcLocals of lines 353-356
funcLocals(func, args, localVars, globals) ==
    [p \in {func.params[k] : k \in 1..Len(func.params)} |->
        LET k == Last({j \in 1..Len(func.params) : func.params[j] = p})
        IN IF k <= Len(args) /\ args[k] # <<>>
           THEN evaluateExpr(args[k], localVars, globals) ELSE Num(0)]

\* this.functions[name] is truthy: an entry of the table, or a function the
\* table inherits
isDefined(tbl, name) == name \in DOMAIN tbl \/ Truthy(get(tbl, name))

TypeErrorMsg == "Cannot read properties of undefined (reading 'forEach')"

\* (executeCall_mut: the spread the other way round, { ...funcLocals,
\* ...localVars }.  executeCall_shared: the parameters are written into the
\* caller's localVars and the body runs with that object.)
executeCall_mut(st, m, sc) ==
    IF m.name \notin DOMAIN st.functions THEN Throw(st, TypeErrorMsg)
    ELSE LET func == get(st.functions, m.name)
             args == IF m.args # <<>> THEN splitArgs(m.args) ELSE <<>>
             new == st.scopes[sc] @@ funcLocals(func, args, st.scopes[sc], st.globals)
         IN Push([st EXCEPT !.scopes = Append(@, new)],
                 BlockFrame(func.body, Len(st.scopes) + 1, TRUE))
executeCall_shared(st, m, sc) ==
    IF m.name \notin DOMAIN st.functions THEN Throw(st, TypeErrorMsg)
    ELSE LET func == get(st.functions, m.name)
             args == IF m.args # <<>> THEN splitArgs(m.args) ELSE <<>>
             new == funcLocals(func, args, st.scopes[sc], st.globals) @@ st.scopes[sc]
         IN Push([st EXCEPT !.scopes[sc] = new], BlockFrame(func.body, sc, FALSE))

\* lines 350-358: the body runs with { ...localVars, ...funcLocals }; a name
\* the table only inherits has no params
executeCall(st, m, sc) ==
    IF m.name \notin DOMAIN st.functions THEN Throw(st, TypeErrorMsg)
    ELSE LET func == get(st.functions, m.name)
             args == IF m.args # <<>> THEN splitArgs(m.args) ELSE <<>>
             new == funcLocals(func, args, st.scopes[sc], st.globals) @@ st.scopes[sc]
         IN Push([st EXCEPT !.scopes = Append(@, new)],
                 BlockFrame(func.body, Len(st.scopes) + 1, TRUE))

\* forMatch[1].replace(/;$/, '')
withoutSemicolon(s) == IF endsWith(s, <<";">>) THEN Sub(s, 1, Len(s) - 1) ELSE s

delayValue(v) == IF IsNum(v) THEN v.n ELSE 0

\* ArduinoParser.executeStatement with the flag set: the forms in the
\* order of their tests
executeStmt(st, stmt, sc) ==
    IF delayMatch(stmt, <<"d","e","l","a","y">>).ok
    THEN Sleep(st, sleepMs(delayValue(evaluateExpr(delayMatch(stmt, <<"d","e","l","a","y">>).arg,
                                                  st.scopes[sc], st.globals))))
    ELSE IF delayMatch(stmt, <<"d","e","l","a","y","M","i","c","r","o","s","e","c","o","n","d","s">>).ok
    THEN Sleep(st, Max(MinSleep,
                       delayValue(evaluateExpr(delayMatch(stmt, <<"d","e","l","a","y","M","i","c","r","o","s","e","c","o","n","d","s">>).arg,
                                               st.scopes[sc], st.globals))
                          \div (1000 * parserSpeed)))
    ELSE IF IsIoStatement(stmt) THEN st
    ELSE IF assignMatch(stmt).ok THEN executeAssign(st, assignMatch(stmt), sc)
    ELSE IF incMatch(stmt).ok THEN executeInc(st, incMatch(stmt), sc)
    ELSE IF IsIfElse(stmt) THEN executeIfElse(st, stmt, sc)
    ELSE IF forMatch(stmt).ok
    THEN Push(Push(st, ForFrame(forMatch(stmt), sc)),
              BlockFrame(<<withoutSemicolon(forMatch(stmt).groups[1])>>, sc, FALSE))
    ELSE IF whileMatch(stmt).ok THEN Push(st, WhileFrame(whileMatch(stmt), sc))
    ELSE IF funcCallMatch(stmt).ok /\ isDefined(st.functions, funcCallMatch(stmt).name)
    THEN executeCall(st, funcCallMatch(stmt), sc)
    ELSE st

\* ArduinoParser.execute at statements[i]: lines 152-156
stepBlock(st, f) ==
    IF ~st.parserRunning \/ f.i > Len(f.stmts) THEN PopFrame(st)
    ELSE executeStmt([SetTop(st, [f EXCEPT !.i = @ + 1])
                         EXCEPT !.trace = Append(@, f.stmts[f.i])],
                     f.stmts[f.i], f.sc)

\* lines 326-331: the test, the body, the step, the 1 ms timer
stepFor(st, f) ==
    CASE f.pc = "test" ->
            IF st.parserRunning /\ evaluateCondition(f.cond, st.scopes[f.sc], st.globals)
            THEN Push(SetTop(st, [f EXCEPT !.pc = "step"]),
                      BlockFrame(tokenize(f.body), f.sc, FALSE))
            ELSE PopFrame(st)
      [] f.pc = "step" ->
            Push(SetTop(st, [f EXCEPT !.pc = "sleep"]), BlockFrame(<<f.step>>, f.sc, FALSE))
      [] f.pc = "sleep" -> Sleep(SetTop(st, [f EXCEPT !.pc = "test"]), MinSleep)

\* every how many iterations a while loop awaits a timer (line 343)
WhileYield == 100

\* lines 339-344
stepWhile(st, f) ==
    CASE f.pc = "test" ->
            IF st.parserRunning /\ evaluateCondition(f.cond, st.scopes[f.sc], st.globals)
            THEN Push(SetTop(st, [f EXCEPT !.pc = "count"]),
                      BlockFrame(tokenize(f.body), f.sc, FALSE))
            ELSE PopFrame(st)
      [] f.pc = "count" ->
            IF (f.iterations + 1) % WhileYield = 0
            THEN Sleep(SetTop(st, [f EXCEPT !.pc = "test", !.iterations = @ + 1]), MinSleep)
            ELSE SetTop(st, [f EXCEPT !.pc = "test", !.iterations = @ + 1])

\* Engine.start, lines 66-73 and 79: setup has returned; the while test; a
\* pass over loopCode with a localVars of its own; the timer after it
stepEngine(st, f) ==
    CASE f.pc = "setup" -> SetTop(st, [f EXCEPT !.pc = "while"])
      [] f.pc = "while" ->
            IF st.running
            THEN Push([SetTop(st, [f EXCEPT !.pc = "loop"])
                          EXCEPT !.scopes = Append(@, NoTable)],
                      BlockFrame(st.loopCode, Len(st.scopes) + 1, TRUE))
            ELSE [st EXCEPT !.res = "exit"]
      [] f.pc = "loop" -> Sleep(SetTop(st, [f EXCEPT !.pc = "while"]), YieldMs)

\* one step of the innermost frame
stepTop(st) ==
    CASE Top(st).k = "block" -> stepBlock(st, Top(st))
      [] Top(st).k = "for" -> stepFor(st, Top(st))
      [] Top(st).k = "while" -> stepWhile(st, Top(st))
      [] Top(st).k = "engine" -> stepEngine(st, Top(st))

\* ---- runs of sketches given as text
\* Sketches as the editor hands them to Engine.start.
SketchFor ==
    <<"i","n","t"," ","x"," ","="," ","0",";","\n","v","o","i","d"," ","s","e","t","u","p","(",")"," ","{","\n","f","o","r"," ","(","i","n","t"," ","i"," ","="," ","0",";"," ","i"," ","<"," ","5",";"," ","i","+","+",")"," ","{"," ","x"," ","+","="," ","1",";"," ","}","\n","}","\n","v","o","i","d"," ","l","o","o","p","(",")"," ","{","\n","}">>
SketchNoSetup == <<"v","o","i","d"," ","l","o","o","p","(",")"," ","{","\n","y"," ","="," ","1",";","\n","d","e","l","a","y","(","1",")",";","\n","}">>
SketchNoLoop == <<"v","o","i","d"," ","s","e","t","u","p","(",")"," ","{","\n","y"," ","="," ","1",";","\n","}">>
SketchNeither == <<"i","n","t"," ","x"," ","="," ","0",";">>
SketchUnbalanced == <<"v","o","i","d"," ","s","e","t","u","p","(",")"," ","{","\n","y"," ","="," ","1",";","\n","v","o","i","d"," ","l","o","o","p","(",")"," ","{","\n","z"," ","="," ","1",";","\n","}">>
SketchElseOwnLine ==
    <<"v","o","i","d"," ","s","e","t","u","p","(",")"," ","{","\n","a"," ","="," ","1",";","\n","i","f"," ","(","a",")"," ","{","\n","y"," ","="," ","1",";","\n","}","\n","e","l","s","e"," ","{","\n","y"," ","="," ","2",";","\n","}","\n","}","\n","v","o","i","d"," ","l","o","o","p","(",")"," ","{","\n","}">>
SketchElseSameLine ==
    <<"v","o","i","d"," ","s","e","t","u","p","(",")"," ","{","\n","i","f"," ","(","a",")"," ","{","\n","y"," ","="," ","1",";","\n","}"," ","e","l","s","e"," ","i","f"," ","(","b",")"," ","{","\n","y"," ","="," ","2",";","\n","}"," ","e","l","s","e"," ","{","\n","y"," ","="," ","3",";","\n","}","\n","}","\n","v","o","i","d"," ","l","o","o","p","(",")"," ","{","\n","}">>
SketchNestedIf ==
    <<"v","o","i","d"," ","s","e","t","u","p","(",")"," ","{","\n","a"," ","="," ","1",";","\n","b"," ","="," ","1",";","\n","i","f"," ","(","a",")"," ","{"," ","i","f"," ","(","b",")"," ","{"," ","y"," ","="," ","1",";"," ","}"," ","z"," ","="," ","1",";"," ","}","\n","}","\n","v","o","i","d"," ","l","o","o","p","(",")"," ","{","\n","}">>
SketchScopes ==
    <<"i","n","t"," ","g"," ","="," ","0",";","\n","v","o","i","d"," ","b","u","m","p","(","i","n","t"," ","p",")"," ","{","\n","p"," ","+","="," ","2",";","\n","i","n","t"," ","q"," ","="," ","1",";","\n","q","+","+",";","\n","g"," ","-","="," ","1",";","\n","m"," ","*","="," ","3",";","\n","d","e","l","a","y","(","1",")",";","\n","}","\n","v","o","i","d"," ","s","e","t","u","p","(",")"," ","{","\n","b","u","m","p","(","4",")",";","\n","v","a","l","u","e","O","f"," ","="," ","5",";","\n","d","e","l","a","y","(","1",")",";","\n","}","\n","v","o","i","d"," ","l","o","o","p","(",")"," ","{","\n","}">>

\* The state the interpreter's step works on, for run r.
StateOf(r) ==
    [frames |-> runs[r].frames, scopes |-> runs[r].scopes, trace |-> runs[r].trace,
     globals |-> variables, functions |-> functions, loopCode |-> loopCode,
     running |-> running, parserRunning |-> parserRunning,
     res |-> "go", ms |-> 0, msg |-> ""]

\* Engine.start on a source text, up to the call of execute for setup: the
\* flags, the timestamp, the status event and the parse.  src is the text the
\* run was started on, parsed what the parse gave.
StartRun(code) ==
    /\ cur = 0
    /\ IF StartRefuses
       THEN /\ op' = Op("start", 0, "", 0, TRUE)
            /\ out' = Out(<<>>, <<>>, <<>>, <<>>)
            /\ UNCHANGED <<listeners, circuit, engineVars, clock, runs, nextRun, cur, lastStatus,
                           execSince>>
       ELSE /\ nextRun <= MaxRuns
            /\ \E p \in {parseCode([variables |-> variables, functions |-> functions,
                                     setupCode |-> setupCode, loopCode |-> loopCode], code)} :
                  /\ variables' = p.variables
                  /\ functions' = p.functions
                  /\ setupCode' = p.setupCode
                  /\ loopCode' = p.loopCode
                  /\ runs' = [runs EXCEPT ![nextRun] =
                                 [frames |-> <<EngineFrame("setup"),
                                               BlockFrame(p.setupCode, 1, TRUE)>>,
                                  scopes |-> <<NoTable>>, trace |-> <<>>, src |-> code,
                                  parsed |-> p]
                                 @@ [NoRun EXCEPT !.pc = "stmt"]]
                  /\ nextRun' = nextRun + 1
                  /\ cur' = nextRun
                  /\ op' = Op("start", nextRun, "", 0, FALSE)
            /\ running' = TRUE
            /\ parserRunning' = TRUE
            /\ startTime' = clock
            /\ parserStartTime' = clock
            /\ parserSpeed' = speed
            /\ lastStatus' = "running"
            /\ execSince' = {}
            /\ out' = Out(<<"running">>, <<>>, <<>>, <<>>)
            /\ UNCHANGED <<listeners, circuit, speed, serialBuffer, peripherals, pins, clock>>

\* the run's record after a step
Stepped(r, st) == [runs[r] EXCEPT !.frames = st.frames, !.scopes = st.scopes, !.trace = st.trace]

RECURSIVE runSteps(_, _)
\* up to 2^k steps of a continuation, fewer when it awaits a timer, throws
\* or leaves the while of Engine.start
runSteps(st, k) ==
    IF st.res # "go" THEN st
    ELSE IF k = 0 THEN stepTop(st)
    ELSE Then(runSteps(st, k - 1), LAMBDA s : runSteps(s, k - 1))

RECURSIVE runFrom(_, _)
runFrom(st, k) ==
    IF st.res # "go" THEN st ELSE Then(runSteps(st, k), LAMBDA s : runFrom(s, k + 1))

\* the steps a continuation takes until it awaits a timer, throws or leaves
\* the while of Engine.start: no other callback runs in between
runToAwait(st) == runFrom(st, 0)

\* what the end of a chunk leaves of the run: suspended on its timer, or over
Suspend(run, st) ==
    IF st.res = "sleep"
    THEN [run EXCEPT !.pc = "sleep", !.due = clock + st.ms, !.susStop = FALSE]
    ELSE [run EXCEPT !.pc = "done"]

\* the status events of Engine.start's lines 74-81 at the end of a chunk
statusOf(st) ==
    CASE st.res = "sleep" -> <<>>
      [] st.res = "exit" -> exitStatus
      [] st.res = "throw" -> catchStatus

\* line 75: the error event of the catch block
Caught(st) ==
    IF st.res = "throw"
    THEN handleSerial(serialBuffer, <<ErrPrefix, st.msg>>, "error", Elapsed)
    ELSE [buffer |-> serialBuffer, events |-> <<>>]

\* The continuation of run r executes until its next timer.  A timer leaves
\* the run suspended; an exception is caught in Engine.start (lines 74-81);
\* the while of line 69 failing ends the run.
RunOn(r) ==
    /\ cur = r
    /\ runs[r].pc = "stmt"
    /\ \E st \in {runToAwait(StateOf(r))} :
          /\ variables' = st.globals
          /\ runs' = [runs EXCEPT ![r] = Suspend(Stepped(r, st), st)]
          /\ serialBuffer' = Caught(st).buffer
          /\ lastStatus' = LastOf(lastStatus, statusOf(st))
          /\ out' = Out(statusOf(st), Caught(st).events, <<>>, <<>>)
          /\ op' = Op(st.res, r, "", Len(st.trace), st.trace # runs[r].trace)
    /\ cur' = 0
    /\ execSince' = execSince \cup {r}
    /\ UNCHANGED <<listeners, circuit, running, parserRunning, startTime, parserStartTime, speed,
                   parserSpeed, peripherals, pins, functions, setupCode, loopCode, clock,
                   nextRun>>

\* A timer fires and the suspended run's continuation goes on after its
\* await.
ResumeRun(r) ==
    /\ cur = 0
    /\ Suspended(r)
    /\ TimerDue(r)
    /\ runs' = [runs EXCEPT ![r].pc = "stmt"]
    /\ cur' = r
    /\ op' = Op("resume", r, "", 0, FALSE)
    /\ out' = Out(<<>>, <<>>, <<>>, <<>>)
    /\ UNCHANGED <<listeners, circuit, engineVars, clock, nextRun, lastStatus, execSince>>

\* Time passes while a timer is pending.
MaxTime == 7
Elapse ==
    /\ cur = 0
    /\ clock < MaxTime
    /\ \E r \in RunIds : Suspended(r) /\ ~TimerDue(r)
    /\ clock' = clock + 1
    /\ op' = Op("tick", 0, "", 0, FALSE)
    /\ out' = Out(<<>>, <<>>, <<>>, <<>>)
    /\ UNCHANGED <<listeners, circuit, engineVars, runs, nextRun, cur, lastStatus, execSince>>

\* SpecFor: the for loop of the documentation, started, stopped and started
\* again.
NextFor ==
    \/ StartRun(SketchFor)
    \/ Stop
    \/ Elapse
    \/ \E r \in RunIds : ResumeRun(r)
    \/ \E r \in RunIds : RunOn(r)

SpecFor == Init /\ [][NextFor]_vars

\* SpecParse: sources that lack a routine or leave its block open.
LacksSetup == {SketchNoSetup, SketchNeither, SketchUnbalanced}
LacksLoop == {SketchNoLoop, SketchNeither}
NextParse ==
    \/ \E code \in LacksSetup \cup LacksLoop : StartRun(code)
    \/ Stop
    \/ Tick
    \/ \E r \in RunIds : ResumeRun(r)
    \/ \E r \in RunIds : RunOn(r)

SpecParse == Init /\ [][NextParse]_vars

\* SpecText: branches and scopes.
TextSketches == {SketchElseOwnLine, SketchElseSameLine, SketchNestedIf, SketchScopes}
NextText ==
    \/ \E code \in TextSketches : StartRun(code)
    \/ Stop
    \/ Tick
    \/ \E r \in RunIds : ResumeRun(r)
    \/ \E r \in RunIds : RunOn(r)

SpecText == Init /\ [][NextText]_vars

\* ---- calls of user-defined functions
\* outer is called with a local a that hides the global a; inner is called
\* with one argument for two parameters, passes what it reads to probe,
\* assigns to the local it took over and to its own parameter and passes
\* them to probe again; shadow has a parameter with the name of the
\* caller's local.
SketchCall ==
    <<"i","n","t"," ","g"," ","="," ","7",";","\n","i","n","t"," ","a"," ","="," ","9",";","\n","v","o","i","d"," ","p","r","o","b","e","(","i","n","t"," ","x",","," ","i","n","t"," ","y",")"," ","{","\n","d","e","l","a","y","(","1",")",";","\n","}","\n","v","o","i","d"," ","i","n","n","e","r","(","i","n","t"," ","b",","," ","i","n","t"," ","c",")"," ","{","\n","p","r","o","b","e","(","a",","," ","g",")",";","\n","a"," ","="," ","5","0",";","\n","b"," ","="," ","6","0",";","\n","p","r","o","b","e","(","a",","," ","b",")",";","\n","}","\n","v","o","i","d"," ","s","h","a","d","o","w","(","i","n","t"," ","a",")"," ","{","\n","d","e","l","a","y","(","1",")",";","\n","}","\n","v","o","i","d"," ","o","u","t","e","r","(","i","n","t"," ","a",")"," ","{","\n","i","n","n","e","r","(","a"," ","+"," ","1",")",";","\n","s","h","a","d","o","w","(","5",")",";","\n","}","\n","v","o","i","d"," ","s","e","t","u","p","(",")"," ","{","\n","o","u","t","e","r","(","2",")",";","\n","}","\n","v","o","i","d"," ","l","o","o","p","(",")"," ","{","\n","}">>

NextCall ==
    \/ StartRun(SketchCall)
    \/ Stop
    \/ Tick
    \/ \E r \in RunIds : ResumeRun(r)
    \/ \E r \in RunIds : RunOn(r)

SpecCall == Init /\ [][NextCall]_vars

\* ---- statements of no form
\* Statements that have none of the forms of executeStatement: a keyword, a
\* call of a method, a call of a function the sketch does not define, a
\* name; and a call of valueOf, which the sketch does not define either.
SketchUnmatched ==
    <<"i","n","t"," ","k"," ","="," ","3",";","\n","v","o","i","d"," ","s","e","t","u","p","(",")"," ","{","\n","d","e","l","a","y","(","1",")",";","\n","r","e","t","u","r","n",";","\n","W","i","r","e",".","b","e","g","i","n","(",")",";","\n","f","o","o","(","k",")",";","\n","k",";","\n","d","e","l","a","y","(","1",")",";","\n","y"," ","="," ","1",";","\n","}","\n","v","o","i","d"," ","l","o","o","p","(",")"," ","{","\n","}">>
SketchInherited == <<"v","o","i","d"," ","s","e","t","u","p","(",")"," ","{","\n","d","e","l","a","y","(","1",")",";","\n","v","a","l","u","e","O","f","(",")",";","\n","d","e","l","a","y","(","1",")",";","\n","y"," ","="," ","1",";","\n","}","\n","v","o","i","d"," ","l","o","o","p","(",")"," ","{","\n","}">>

NoFormSketches == {SketchUnmatched, SketchInherited}
NextNoForm ==
    \/ \E code \in NoFormSketches : StartRun(code)
    \/ Stop
    \/ Tick
    \/ \E r \in RunIds : ResumeRun(r)
    \/ \E r \in RunIds : RunOn(r)

SpecNoForm == Init /\ [][NextNoForm]_vars

\* ---- loops that only stop() ends
\* A for loop and a while loop whose condition always holds and whose body
\* awaits no timer.
SketchForEver == <<"v","o","i","d"," ","s","e","t","u","p","(",")"," ","{","\n","f","o","r"," ","(","i"," ","="," ","0",";"," ","1",";"," ","i","+","+",")"," ","{"," ","x"," ","+","="," ","1",";"," ","}","\n","}","\n","v","o","i","d"," ","l","o","o","p","(",")"," ","{","\n","}">>
SketchWhileEver == <<"v","o","i","d"," ","s","e","t","u","p","(",")"," ","{","\n","w","h","i","l","e"," ","(","1",")"," ","{"," ","x"," ","+","="," ","1",";"," ","}","\n","}","\n","v","o","i","d"," ","l","o","o","p","(",")"," ","{","\n","}">>

LoopSketches == {SketchForEver, SketchWhileEver}
NextLoops ==
    \/ \E code \in LoopSketches : StartRun(code)
    \/ Stop
    \/ Tick
    \/ \E r \in RunIds : ResumeRun(r)
    \/ \E r \in RunIds : RunOn(r)

SpecLoops == Init /\ [][NextLoops]_vars

\* ---- millis() while the speed changes
\* setup reads millis() after a delay and again after another.
SketchMillis == <<"v","o","i","d"," ","s","e","t","u","p","(",")"," ","{","\n","d","e","l","a","y","(","2",")",";","\n","t"," ","="," ","m","i","l","l","i","s","(",")",";","\n","d","e","l","a","y","(","1",")",";","\n","u"," ","="," ","m","i","l","l","i","s","(",")",";","\n","}","\n","v","o","i","d"," ","l","o","o","p","(",")"," ","{","\n","}">>

NextMillis ==
    \/ StartRun(SketchMillis)
    \/ Stop
    \/ \E s \in Speeds : SetSpeed(s)
    \/ Elapse
    \/ \E r \in RunIds : ResumeRun(r)
    \/ \E r \in RunIds : RunOn(r)

SpecMillis == Init /\ [][NextMillis]_vars

\* ---- the evaluator applied to texts
\* The table a parse of "int a = ..; int b = ..; int c = ..;" leaves.
CondNames == {<<"a">>, <<"b">>, <<"c">>}
InitEval ==
    /\ running = FALSE
    /\ parserRunning = FALSE
    /\ startTime = 0
    /\ parserStartTime = 0
    /\ speed = 1
    /\ parserSpeed = 1
    /\ serialBuffer = <<>>
    /\ peripherals = <<>>
    /\ pins = newPins
    /\ listeners = <<>>
    /\ circuit = NoCircuit
    /\ variables \in [CondNames -> {Num(0), Num(1)}]
    /\ functions = NoTable
    /\ setupCode = <<>>
    /\ loopCode = <<>>
    /\ clock = 0
    /\ runs = [r \in RunIds |-> NoRun]
    /\ nextRun = 1
    /\ cur = 0
    /\ lastStatus = "idle"
    /\ execSince = {}
    /\ op = Op("init", 0, "", 0, FALSE)
    /\ out = [status |-> <<>>, serial |-> <<>>, hooks |-> <<>>, notified |-> <<>>,
              prevStatus |-> "idle"]

\* a call of evaluateExpr or evaluateCondition: the text and what it gave
Evaluated(name, expr, value) == [name |-> name, expr |-> expr, value |-> value]

\* ArduinoParser.evaluateExpr(expr) with no local variables.  The evaluator
\* changes nothing, so one call is looked at in each behaviour.
EvaluateExpr(expr) ==
    /\ op.name = "init"
    /\ op' = Evaluated("evaluateExpr", expr, evaluateExpr(expr, NoTable, variables))
    /\ out' = Out(<<>>, <<>>, <<>>, <<>>)
    /\ UNCHANGED <<listeners, circuit, engineVars, clock, runs, nextRun, cur, lastStatus,
                   execSince>>

\* ArduinoParser.evaluateCondition(expr) with no local variables
EvaluateCondition(expr) ==
    /\ op.name = "init"
    /\ op' = Evaluated("evaluateCondition", expr, evaluateCondition(expr, NoTable, variables))
    /\ out' = Out(<<>>, <<>>, <<>>, <<>>)
    /\ UNCHANGED <<listeners, circuit, engineVars, clock, runs, nextRun, cur, lastStatus,
                   execSince>>

\* Calls of map: the example of the documentation, and small arguments in
\* both orders of the input range.
MaxArg == 3
MapExample == <<512, 0, 1023, 0, 100>>
MapArgs ==
    {MapExample} \cup
    {<<v, inMin, inMax, outMin, outMax>> :
        v \in -1..MaxArg, inMin \in 0..1, inMax \in 0..MaxArg, outMin \in 0..1,
        outMax \in 0..MaxArg}
mapText(args) ==
    <<"m","a","p","(">> \o IntText(args[1]) \o <<","," ">> \o IntText(args[2]) \o <<","," ">> \o IntText(args[3])
        \o <<","," ">> \o IntText(args[4]) \o <<","," ">> \o IntText(args[5]) \o <<")">>

\* Expressions with an operator the evaluator has no case for.
UnsupportedExprs == {<<"\"","a","\""," ","+"," ","\"","b","\"">>, <<"a"," ","&"," ","1">>, <<"a"," ","^"," ","b">>, <<"a"," ","<","<"," ","1">>, <<"1"," ","+">>, <<"(","1"," ","+"," ","2">>}

ExprTexts == {mapText(args) : args \in MapArgs} \cup UnsupportedExprs

\* Conditions over && and ||: a sequence of groups of names stands for the
\* groups joined by ||, and these joined by &&.
MaxOperands == 2
Groups == UNION {[1..n -> CondNames] : n \in 1..MaxOperands}
CondForms == UNION {[1..n -> Groups] : n \in 1..2}
condText(form) == join([i \in 1..Len(form) |-> join(form[i], <<" ","|","|"," ">>)], <<" ","&","&"," ">>)
CondTexts == {condText(form) : form \in CondForms}

NextEval ==
    \/ \E expr \in ExprTexts : EvaluateExpr(expr)
    \/ \E expr \in CondTexts : EvaluateCondition(expr)

SpecEval == InitEval /\ [][NextEval]_vars


\* ------------------------------------------------------------------ claims
\* C1: at most one run in flight executes sketch statements: of the runs
\* that have not returned, at most one has executed a statement since the
\* most recent accepted start().
C1_OneSketchThread == Cardinality(execSince) <= 1

Legal(a, b) ==
    <<a, b>> \in { <<"idle", "running">>, <<"running", "stopped">>,
                   <<"running", "error">>, <<"stopped", "idle">>,
                   <<"error", "idle">> }

RECURSIVE LegalChain(_, _)
LegalChain(prev, s) ==
    \/ s = <<>>
    \/ Legal(prev, Head(s)) /\ LegalChain(Head(s), Tail(s))

\* C2: every status event emitted is a legal successor of the status emitted
\* before it (idle at first): idle->running, running->stopped,
\* running->error, stopped->idle, error->idle.
C2_LegalStatusEvents == LegalChain(out.prevStatus, out.status)

\* C3: start() called with the running flag set re-parses nothing, keeps the
\* start timestamp, emits no status or serial event and starts no run.
C3_StartRefused ==
    [][(op'.name = "start" /\ running) =>
          /\ UNCHANGED <<variables, functions, setupCode, loopCode, startTime,
                         parserStartTime, runs, nextRun, cur, running,
                         parserRunning, lastStatus>>
          /\ out'.status = <<>>
          /\ out'.serial = <<>>]_vars

C3_Witness ==
    /\ op.name = "start"
    /\ op.flag
    /\ \E r \in RunIds : runs[r].pc = "sleep" /\ variables # NoVars

\* C4: a run during which stop() was called executes no further sketch
\* statement (pin mutation, variable write, serial emission) once it has
\* resumed.
C4_NoStatementAfterStop ==
    (op.name = "stmt" /\ op.flag) => ~runs[op.run].stopSeen

\* C5: after a run aborted with status error, and with no stop() or reset()
\* since, start(code) is accepted and the status becomes running.
C5_StartAfterError ==
    (op.name = "start" /\ out.prevStatus = "error") =>
        (~op.flag /\ out.status = <<"running">> /\ lastStatus = "running")

\* C6 as claimed: a statement that throws yields exactly one serial event, of
\* category error, whose text starts with "[Error] "; the status becomes
\* error and the run is over.
C6_ErrorTextStartsWithPrefix ==
    op.name = "catch" =>
        /\ Len(out.serial) = 1
        /\ out.serial[1].type = "error"
        /\ out.serial[1].text[1] = ErrPrefix
        /\ lastStatus = "error"
        /\ runs[op.run].pc = "done"

\* C6 as amended: a statement that throws yields exactly one serial event, of
\* category error, whose text is the pending print text followed by
\* "[Error] " and the message; the pending buffer is left empty, the only
\* status event is error, and the run is over for good.
C6_CaughtOnce ==
    [][/\ op'.name = "catch" =>
            /\ out'.serial = << [text |-> serialBuffer \o <<ErrPrefix, ToFixedMsg>>,
                                type |-> "error",
                                elapsed |-> clock - startTime] >>
            /\ serialBuffer' = <<>>
            /\ out'.status = <<"error">>
            /\ lastStatus' = "error"
            /\ runs'[op'.run].pc = "done"
       /\ \A r \in RunIds : runs[r].pc = "done" => runs'[r].pc = "done"]_vars

C6_Witness ==
    /\ op.name = "catch"
    /\ Len(out.serial) = 1
    /\ Len(out.serial[1].text) > 2
    /\ out.serial[1].text[1] # ErrPrefix

\* C7: when stop() is called while a delay of a run is pending, with part of
\* the delay still to elapse, the call itself reports status stopped.
C7_StoppedReportedAtOnce ==
    (op.name = "stop" /\ \E r \in RunIds : runs[r].pc = "sleep" /\ clock < runs[r].due)
        => (out.status # <<>> /\ out.status[Len(out.status)] = "stopped"
            /\ lastStatus = "stopped")

C7_Witness ==
    /\ op.name = "stop"
    /\ \E r \in RunIds : runs[r].pc = "sleep" /\ runs[r].due - clock >= 2
    /\ lastStatus = "stopped"

\* C8: a suspension during which stop() was called ends before its full
\* duration has elapsed.
C8_SuspensionCutShort ==
    (op.name = "resume" /\ runs[op.run].susStop) => clock < runs[op.run].due

\* C9: the setup statements of a run execute in order, each at most once,
\* and before any loop statement; a run that stop() reached during setup
\* executes no loop statement.
C9_SetupThenLoop ==
    /\ (op.name = "stmt" /\ op.phase = "setup") =>
           op.idx = runs[op.run].setupCount
    /\ (op.name = "stmt" /\ op.phase = "loop") =>
           ~runs[op.run].setupStop

\* C10: when reset() returns the running flags are clear, every GPIO pin
\* has mode INPUT and digital, analog and PWM value 0, the variables and the
\* pending serial buffer are empty, and the reset hook of every registered
\* peripheral that has one was invoked exactly once, and no other.
C10_ResetPostState ==
    op.name = "reset" =>
        /\ ~running
        /\ ~parserRunning
        /\ \A pin \in Gpios :
              /\ pins[pin].mode = "INPUT"
              /\ pins[pin].value = 0
              /\ pins[pin].analogValue = 0
              /\ pins[pin].pwmValue = 0
        /\ variables = NoVars
        /\ serialBuffer = <<>>
        /\ \A j \in 1..Len(peripherals) :
              Cardinality({h \in 1..Len(out.hooks) : out.hooks[h] = peripherals[j].id})
                  = (IF peripherals[j].hasReset THEN 1 ELSE 0)
        /\ \A h \in 1..Len(out.hooks) :
              \E j \in 1..Len(peripherals) : peripherals[j].id = out.hooks[h]

C10_Witness ==
    /\ op.name = "reset"
    /\ op.flag
    /\ out.hooks # <<>>
    /\ \E j \in 1..Len(peripherals) : ~peripherals[j].hasReset


\* C11: a print emission delivers no event and appends its text to the
\* pending buffer; a println, printf, system or error emission delivers
\* exactly one event whose text is the pending buffer followed by its own
\* text and leaves the buffer empty; the buffer changes in no other step
\* but reset(), which empties it, so the pending buffer is always the print
\* texts accumulated since the last flush.
OneEvent(events, type, pending) ==
    /\ Len(events) = 1
    /\ events[1].type = type
    /\ Len(events[1].text) > Len(pending)
    /\ SubSeq(events[1].text, 1, Len(pending)) = pending

C11_SerialBuffering ==
    [][ LET stmt == runs[op'.run].stmts[op'.idx]
        IN CASE op'.name = "stmt" /\ stmt.k = "print" ->
                    /\ out'.serial = <<>>
                    /\ serialBuffer' = serialBuffer \o stmt.text
             [] op'.name = "stmt" /\ stmt.k = "println" ->
                    /\ OneEvent(out'.serial, "println", serialBuffer)
                    /\ out'.serial[1].text = serialBuffer \o stmt.text
                    /\ serialBuffer' = <<>>
             [] op'.name = "stmt" /\ stmt.k = "printf" ->
                    /\ OneEvent(out'.serial, "printf", serialBuffer)
                    /\ serialBuffer' = <<>>
             [] op'.name = "stmt" /\ stmt.k = "begin" ->
                    /\ OneEvent(out'.serial, "system", serialBuffer)
                    /\ serialBuffer' = <<>>
             [] op'.name = "catch" ->
                    /\ OneEvent(out'.serial, "error", serialBuffer)
                    /\ serialBuffer' = <<>>
             [] op'.name = "reset" ->
                    /\ out'.serial = <<>>
                    /\ serialBuffer' = <<>>
             [] OTHER ->
                    /\ out'.serial = <<>>
                    /\ serialBuffer' = serialBuffer ]_vars

\* print x, print y, println z have given the one event "xyz".
C11_Witness ==
    /\ op.name = "stmt"
    /\ Len(out.serial) = 1
    /\ out.serial[1].type = "println"
    /\ out.serial[1].text = <<"x", "y", "z">>
    /\ serialBuffer = <<>>

\* C12: the elapsed value of every serial event equals the elapsed
\* simulation time, the host time since the start timestamp multiplied by
\* the speed, at the instant of the event.
C12_ElapsedScaled ==
    \A j \in 1..Len(out.serial) : out.serial[j].elapsed = getElapsedTime

\* C13: every power rail has mode POWER and its fixed value.
C13_RailsFixed ==
    \A pin \in Rails :
        /\ pins[pin].mode = "POWER"
        /\ pins[pin].value = (IF pin = "GND" THEN 0 ELSE 1)

\* C14: the mode of every pin of the table is INPUT, OUTPUT, INPUT_PULLUP
\* or POWER.
PinModes == {"INPUT", "OUTPUT", "INPUT_PULLUP", "POWER"}

C14_ModeInSet == \A pin \in PinIds : pins[pin].mode \in PinModes


\* C15: for a pin id outside the declared GPIO and power set, digitalRead
\* and analogRead return 0, and pinMode, digitalWrite, analogWrite,
\* setAnalogValue, connectPin and disconnectPin leave what the table holds
\* unchanged and notify nobody.
WritesTo(pin) ==
    \/ \E mode \in ModeArgs : pinMode(pin, mode)
    \/ \E v \in LevelArgs : digitalWrite(pin, v)
    \/ \E v \in DutyArgs : analogWrite(pin, v)
    \/ \E v \in ReadingArgs : writeAnalogValue(pin, v)
    \/ connectPin(pin, "led1", "led")
    \/ disconnectPin(pin)

C15_UnknownPinsIgnored ==
    [][ \A pin \in PinArgs \ PinIds :
            /\ PM_digitalRead(pins', pin) = Num(0)
            /\ PM_analogRead(pins', pin) = Num(0)
            /\ WritesTo(pin) => pins' = pins /\ out'.notified = <<>> ]_vars

\* C16: on a GPIO, analogWrite(pin, d) stores pwmValue = min(255, max(0, d))
\* and the digital value 1 iff that duty is > 0; setAnalogValue(pin, v)
\* stores analogValue = min(4095, max(0, v)); digitalWrite stores 1 for a
\* truthy value and 0 otherwise; so every GPIO has value in {0, 1},
\* pwmValue in 0..255 and analogValue in 0..4095.
C16_WritesClamped ==
    [][ /\ \A pin \in PinArgs \cap Gpios :
              /\ \A d \in DutyArgs :
                     analogWrite(pin, d) =>
                        LET duty == IF d < 0 THEN 0 ELSE IF d > 255 THEN 255 ELSE d
                        IN /\ pins'[pin].pwmValue = duty
                           /\ pins'[pin].value = (IF duty > 0 THEN 1 ELSE 0)
              /\ \A v \in ReadingArgs :
                     writeAnalogValue(pin, v) =>
                        pins'[pin].analogValue =
                            (IF v < 0 THEN 0 ELSE IF v > 4095 THEN 4095 ELSE v)
              /\ \A v \in LevelArgs :
                     digitalWrite(pin, v) =>
                        pins'[pin].value = (IF v # 0 THEN 1 ELSE 0)
        /\ \A pin \in Gpios :
              /\ pins'[pin].value \in {0, 1}
              /\ pins'[pin].pwmValue \in 0..255
              /\ pins'[pin].analogValue \in 0..4095 ]_vars

\* A duty above 255 and a reading above 4095 have been written to GPIO 2.
C16_Witness ==
    /\ op.name = "analogWrite"
    /\ pins["2"].pwmValue = 255
    /\ pins["2"].value = 1
    /\ pins["2"].analogValue = 4095

\* C17: PinManager.reset, from any table, leaves every GPIO with mode INPUT
\* and digital, analog and PWM value 0, every rail with mode POWER and its
\* fixed value, and calls every subscriber exactly once per pin of the
\* table, with that pin's restored state.
CallsTo(calls, cb, pin) ==
    Cardinality({i \in 1..Len(calls) : calls[i].cb = cb /\ calls[i].pin = pin})

Registrations(cb) == Cardinality({j \in 1..Len(listeners) : listeners[j] = cb})

C17_ResetAllRestores ==
    [][ op'.name = "pinReset" =>
            /\ \A pin \in Gpios :
                  /\ pins'[pin].mode = "INPUT"
                  /\ pins'[pin].value = 0
                  /\ pins'[pin].analogValue = 0
                  /\ pins'[pin].pwmValue = 0
            /\ \A pin \in Rails :
                  /\ pins'[pin].mode = "POWER"
                  /\ pins'[pin].value = (IF pin = "GND" THEN 0 ELSE 1)
            /\ Len(Calls') = Len(listeners) * Cardinality(PinIds)
            /\ \A cb \in Callbacks, pin \in PinIds :
                  CallsTo(Calls', cb, pin) = Registrations(cb)
            /\ \A i \in 1..Len(Calls') :
                  Calls'[i].state = initPins[Calls'[i].pin] ]_vars

\* reset() was called with a subscriber on a table that had been changed.
C17_Witness ==
    /\ op.name = "pinReset"
    /\ op.flag
    /\ listeners # <<>>
    /\ Len(Calls) = Len(listeners) * Cardinality(PinIds)

\* C18: a pinMode, digitalWrite or analogWrite on a pin of the table calls
\* every subscriber once, in the order of registration, with the pin id and
\* the pin's state after the call; setAnalogValue, connectPin and
\* disconnectPin call no subscriber.
Mutates(pin) ==
    \/ \E mode \in ModeArgs : pinMode(pin, mode)
    \/ \E v \in LevelArgs : digitalWrite(pin, v)
    \/ \E v \in DutyArgs : analogWrite(pin, v)

C18_MutationsNotify ==
    [][ /\ \A pin \in PinArgs \cap PinIds :
              Mutates(pin) =>
                 Calls' = [j \in 1..Len(listeners) |->
                              [cb |-> listeners[j], pin |-> pin, state |-> pins'[pin]]]
        /\ op'.name \in {"setAnalogValue", "connectPin", "disconnectPin"} =>
              out'.notified = <<>> /\ Calls' = <<>> ]_vars

\* Two subscribers were called, in order, by a pinMode that changed a mode.
C18_Witness ==
    /\ op.name = "pinMode"
    /\ Len(listeners) = 2
    /\ listeners[1] # listeners[2]
    /\ Len(Calls) = 2
    /\ Calls[1].cb = listeners[1]
    /\ Calls[2].cb = listeners[2]
    /\ Calls[1].state.mode = "OUTPUT"


\* C19: registerPeripheral(id, descriptor) sets the connection of each
\* listed pin of the table to (id, descriptor.type); removePeripheral(id)
\* clears the connection of each pin that peripheral lists; neither changes
\* a pin's mode, digital, analog or PWM value, the variables, the serial
\* buffer or the run state, and neither notifies a pin subscriber.
Listed(d) == {d.connectedPins[j] : j \in 1..Len(d.connectedPins)} \cap PinIds

Registered(d) == \E j \in 1..Len(peripherals) : peripherals[j] = d

C19_PeripheralFrame ==
    [][ /\ \A d \in Descriptors :
              /\ registerPeripheral(d) =>
                    \A pin \in Listed(d) :
                        pins'[pin].connected = [componentId |-> d.id, pinName |-> d.type]
              /\ removePeripheral(d.id) /\ Registered(d) =>
                    \A pin \in Listed(d) : pins'[pin].connected = NoConn
        /\ op'.name \in {"register", "remove"} =>
              /\ \A pin \in PinIds :
                    /\ pins'[pin].mode = pins[pin].mode
                    /\ pins'[pin].value = pins[pin].value
              /\ \A pin \in Gpios :
                    /\ pins'[pin].analogValue = pins[pin].analogValue
                    /\ pins'[pin].pwmValue = pins[pin].pwmValue
              /\ UNCHANGED <<variables, serialBuffer, running, parserRunning, runs,
                             cur, setupCode, loopCode, startTime, lastStatus>>
              /\ out'.notified = <<>>
              /\ out'.status = <<>>
              /\ out'.serial = <<>> ]_vars

\* A peripheral was removed during a run, with another one still connected
\* and a pin the sketch had set to OUTPUT.
C19_Witness ==
    /\ op.name = "remove"
    /\ running
    /\ \E r \in RunIds : InFlight(r)
    /\ pins["2"].mode = "OUTPUT"
    /\ pins["2"].connected = NoConn
    /\ pins["5"].connected = [componentId |-> "dht1", pinName |-> "dht22"]


\* C20: importCircuit(exportCircuit(parts, connections)) returns a structure
\* whose parts and connections equal the inputs, element by element and in
\* the same order.
Field(obj, key) ==
    IF obj.t = "object" /\ \E j \in 1..Len(obj.keys) : obj.keys[j] = key
    THEN obj.vals[CHOOSE j \in 1..Len(obj.keys) : obj.keys[j] = key]
    ELSE VUndef

PartObject(c) ==
    VObj(<<"type", "id", "attrs", "position">>, <<c.type, c.id, c.attrs, c.position>>)

ConnectionObject(w) == VObj(<<"from", "to", "color">>, <<w.from, w.to, w.color>>)

\* A value JSON text can hold: a string, a finite number, null, or an array
\* or object of such values.
RECURSIVE JsonValue(_)
JsonValue(v) ==
    \/ v.t \in {"string", "number", "null"}
    \/ /\ v.t \in {"array", "object"}
       /\ \A j \in 1..Len(v.vals) : JsonValue(v.vals[j])

RoundTrip(all) ==
    ImportCircuit(FALSE) /\ op.name = "export" =>
        LET parts == Field(circuit'.imported, "parts")
            conns == Field(circuit'.imported, "connections")
        IN /\ parts.t = "array"
           /\ conns.t = "array"
           /\ Len(parts.vals) = Len(circuit.components)
           /\ Len(conns.vals) = Len(circuit.wires)
           /\ \A j \in 1..Len(circuit.components) :
                 LET c == circuit.components[j]
                 IN all \/ (JsonValue(PartObject(c)) /\ ~Falsy(c.attrs)) =>
                       parts.vals[j] = PartObject(c)
           /\ \A j \in 1..Len(circuit.wires) :
                 LET w == circuit.wires[j]
                 IN all \/ JsonValue(ConnectionObject(w)) =>
                       conns.vals[j] = ConnectionObject(w)

C21_MalformedImport ==
    [][\A json \in MalformedArgs :
          importCircuit(json) =>
             /\ op'.name = "import"
             /\ circuit'.imported = VNull
             /\ Len(out'.serial) = 1
             /\ out'.serial[1].type = "error"
             /\ out'.status = <<>>
             /\ UNCHANGED <<running, parserRunning, runs, cur, lastStatus, pins,
                            variables, functions, setupCode, loopCode>>]_vars

\* A malformed file was read while a run was suspended with variables set.
C21_Witness ==
    /\ op.name = "import"
    /\ ~op.flag
    /\ running
    /\ \E r \in RunIds : Suspended(r)
    /\ variables # NoVars
    /\ Len(out.serial) = 1
    /\ out.serial[1].text[1] = ErrPrefix

\* C22: a run that is not stopped and has executed
\* for (int i = 0; i < 5; i++) { x += 1; } to its end (setup has returned)
\* has executed the init statement once and the body and the step exactly 5
\* times each, and x is 5.
Times(r, stmt) == Cardinality({k \in 1..Len(runs[r].trace) : runs[r].trace[k] = stmt})
SetupOver(r) == runs[r].pc = "sleep" /\ Len(runs[r].frames) = 1
Abs(n) == IF n < 0 THEN -n ELSE n
Nearest(r, args) ==
    Abs(2 * ((r - args[4]) * (args[3] - args[2]) - (args[1] - args[2]) * (args[5] - args[4])))
        <= Abs(args[3] - args[2])
C24_MapRounds ==
    \A args \in MapArgs :
        op.name = "evaluateExpr" /\ op.expr = mapText(args) /\ args[3] # args[2]
            => /\ IsNum(op.value)
               /\ Nearest(op.value.n, args)
               /\ args = MapExample => op.value = Num(50)
C24_Witness ==
    /\ op.name = "evaluateExpr"
    /\ op.expr = <<"m","a","p","(","5","1","2",","," ","0",","," ","1","0","2","3",","," ","0",","," ","1","0","0",")">>
    /\ op.value = Num(50)

\* C25: parsing a source that lacks setup, loop or both, or leaves the block
\* of one open, raises nothing and leaves the statement sequence of that
\* routine empty; a start on such a source emits the status running and no
\* serial event, and the run never ends in the catch block.
Started(r) == runs[r].pc # "none"
C25_MissingRoutinesEmpty ==
    /\ \A r \in RunIds :
          Started(r) => /\ runs[r].src \in LacksSetup => runs[r].parsed.setupCode = <<>>
                        /\ runs[r].src \in LacksLoop => runs[r].parsed.loopCode = <<>>
    /\ op.name = "start" /\ ~op.flag => out.status = <<"running">> /\ out.serial = <<>>
    /\ op.name \in {"sleep", "exit", "throw"}
          => op.name # "throw" /\ out.serial = <<>> /\ out.status \in {<<>>, <<"stopped">>}
C25_Witness ==
    /\ op.name = "start"
    /\ ~op.flag
    /\ runs[op.run].src = SketchUnbalanced
    /\ setupCode = <<>>
    /\ loopCode = <<<<"z"," ","="," ","1">>>>
    /\ out.status = <<"running">>

\* C26: the globals, the setup and loop sequences and the function table a
\* parse produces depend only on the source text: they are what a parser as
\* constructed gives for it, so two parses of one source, with any run in
\* between, give the same tables.
C26_ParseDependsOnSource ==
    /\ op.name = "start" /\ ~op.flag
          => runs[op.run].parsed = parseCode(newParser, runs[op.run].src)
    /\ \A r1, r2 \in RunIds :
          Started(r1) /\ Started(r2) /\ runs[r1].src = runs[r2].src
              => runs[r1].parsed = runs[r2].parsed
    /\ op.name = "start" /\ ~op.flag
          => <<variables, functions, setupCode, loopCode>>
                = <<runs[op.run].parsed.variables, runs[op.run].parsed.functions,
                    runs[op.run].parsed.setupCode, runs[op.run].parsed.loopCode>>
C26_Witness ==
    /\ op.name = "start"
    /\ op.run = 2
    /\ runs[1].src = SketchNoSetup
    /\ runs[2].src = SketchNoSetup
    /\ Times(1, <<"y"," ","="," ","1">>) > 0
    /\ <<"y">> \notin DOMAIN variables

\* C27: in an if / else-if / else chain at most one branch body executes,
\* and the else body only when every condition before it is false, however
\* the chain is laid out over lines: with a = 1, the chain
\* if (a) { y = 1; } else { y = 2; } executes y = 1 only, also when else
\* starts a line of its own.
BranchBodies == {<<"y"," ","="," ","1">>, <<"y"," ","="," ","2">>, <<"y"," ","="," ","3">>}
C27_OneBranch ==
    \A r \in RunIds :
        Started(r) /\ runs[r].src \in {SketchElseOwnLine, SketchElseSameLine}
            => /\ Cardinality({k \in 1..Len(runs[r].trace) :
                                  runs[r].trace[k] \in BranchBodies}) <= 1
               /\ runs[r].src = SketchElseOwnLine => Times(r, <<"y"," ","="," ","2">>) = 0

\* C28: when the condition of an if holds, every statement of its body
\* executes, also when the body contains a nested brace block: after
\* a = 1; b = 1; if (a) { if (b) { y = 1; } z = 1; } both y = 1 and z = 1
\* have executed.
C28_WholeBodyRuns ==
    \A r \in RunIds :
        Started(r) /\ runs[r].src = SketchNestedIf /\ SetupOver(r)
            => Times(r, <<"y"," ","="," ","1">>) = 1 /\ Times(r, <<"z"," ","="," ","1">>) = 1

\* C29: a condition with && is the conjunction of its &&-separated parts, a
\* part with || being the disjunction of its ||-separated parts, wherever
\* the two operators stand; a || b && c is evaluated as (a || b) && c.
C29_AndSplitsFirst ==
    \A form \in CondForms :
        op.name = "evaluateCondition" /\ op.expr = condText(form)
            => op.value = \A i \in 1..Len(form) :
                              \E j \in 1..Len(form[i]) : Truthy(variables[form[i][j]])
C29_Witness ==
    /\ op.name = "evaluateCondition"
    /\ op.expr = <<"a"," ","|","|"," ","b"," ","&","&"," ","c">>
    /\ variables[<<"a">>] = Num(1)
    /\ variables[<<"c">>] = Num(0)
    /\ op.value = FALSE

\* C30: an assignment to a name writes the local table when the name is a
\* key of it and the global table otherwise, and a compound assignment or
\* ++ reads the prior value from that table, a missing value counting as 0:
\* in bump(4) the parameter p becomes 6 locally, q, g and m are globals
\* (2, -1, 0), and valueOf = 5 in setup, whose local table has no key,
\* writes the global valueOf.
C30_AssignTarget ==
    \A r \in RunIds :
        Started(r) /\ runs[r].src = SketchScopes /\ nextRun = 2 /\ runs[r].pc = "sleep"
            => /\ Times(r, <<"m"," ","*","="," ","3">>) = 1 /\ Times(r, <<"v","a","l","u","e","O","f"," ","="," ","5">>) = 0
                  => /\ runs[r].scopes[Len(runs[r].scopes)] = [n \in {<<"p">>} |-> Num(6)]
                     /\ variables = [n \in {<<"g">>, <<"m">>, <<"q">>} |->
                                         IF n = <<"g">> THEN Num(-1)
                                         ELSE IF n = <<"m">> THEN Num(0) ELSE Num(2)]
               /\ Times(r, <<"v","a","l","u","e","O","f"," ","="," ","5">>) = 1
                  => <<"v","a","l","u","e","O","f">> \in DOMAIN variables /\ variables[<<"v","a","l","u","e","O","f">>] = Num(5)

\* C31: the body of a user-defined function runs in the caller's local
\* table overlaid with the parameters, the arguments evaluated in order in
\* the caller's table and a missing argument giving 0; a local hides the
\* global of its name.  In SketchCall, outer(2) calls inner(a + 1), which
\* calls probe(a, g): outer's table is a = 2, inner's a = 2 (outer's local),
\* b = 3 and c = 0 (c without an argument), and probe's has these and x = 2
\* (the local a, not the global 9) and y = 7; shadow(5) runs with a = 5.
\* (Depth counts the calls of execute the run is in: setup, outer, inner,
\* probe; LocalVars(r, k) is the localVars of the k-th of them.)
Table(names, v(_)) == [n \in names |-> Num(v(n))]
Depth(r) == Len(runs[r].frames) - 1
LocalVars(r, k) == runs[r].scopes[runs[r].frames[k + 1].sc]
InProbe(r) == runs[r].pc = "sleep" /\ Depth(r) = 4 /\ Times(r, <<"a"," ","="," ","5","0">>) = 0
InShadow(r) == runs[r].pc = "sleep" /\ Depth(r) = 3 /\ Times(r, <<"s","h","a","d","o","w","(","5",")">>) = 1
InProbeAgain(r) == runs[r].pc = "sleep" /\ Depth(r) = 4 /\ Times(r, <<"b"," ","="," ","6","0">>) = 1
C40_CallScopeIsCopy ==
    \A r \in RunIds :
        Started(r) /\ runs[r].src = SketchCall
            => /\ InProbeAgain(r)
                  => /\ LocalVars(r, 3) =
                            Table({<<"a">>, <<"b">>, <<"c">>},
                                  LAMBDA n : IF n = <<"a">> THEN 50 ELSE IF n = <<"b">> THEN 60 ELSE 0)
                     /\ LocalVars(r, 4) =
                            Table({<<"a">>, <<"b">>, <<"c">>, <<"x">>, <<"y">>},
                                  LAMBDA n : CASE n = <<"a">> -> 50 [] n = <<"b">> -> 60 [] n = <<"c">> -> 0
                                               [] n = <<"x">> -> 50 [] n = <<"y">> -> 60)
               /\ InProbeAgain(r) \/ InShadow(r)
                  => /\ LocalVars(r, 1) = NoTable
                     /\ LocalVars(r, 2) = Table({<<"a">>}, LAMBDA n : 2)
                     /\ variables[<<"a">>] = Num(9)
                     /\ <<"b">> \notin DOMAIN variables

C40_Witness ==
    \E r \in RunIds :
        /\ Started(r) /\ runs[r].src = SketchCall
        /\ InShadow(r)
        /\ Times(r, <<"a"," ","="," ","5","0">>) = 1 /\ Times(r, <<"b"," ","="," ","6","0">>) = 1

\* C32: a parse fills the global table from #define lines and top-level
\* declarations only; a declaration inside a body makes no global before
\* its statement executes.  SketchScopes declares int g = 0; at the top and
\* int q = 1; inside bump: when start() has parsed it and no statement has
\* executed yet, g is the only global.
C32_TopLevelGlobalsOnly ==
    \A r \in RunIds :
        /\ op.name = "start" /\ ~op.flag /\ op.run = r
        /\ runs[r].src = SketchScopes
        /\ runs[r].trace = <<>>
        => DOMAIN variables = {<<"g">>}

\* C33: a delay(ms) that begins while the multiplier is s suspends the run
\* until ms / s of host time has passed, and never for less than 1 ms; a
\* setSpeed call leaves the due time of every pending suspension as it is,
\* and a run resumes no earlier than its due time.  (The delays of the
\* sketch are multiples of the speeds.)
C33_DelayScaledAtItsStart ==
    [][/\ op'.name = "stmt" /\ ~op'.flag
          => LET r == op'.run
                 ms == runs[r].stmts[runs[r].i].ms
             IN /\ runs'[r].pc = "sleep"
                /\ runs'[r].due - clock >= MinSleep
                /\ \/ (runs'[r].due - clock) * speed = ms
                   \/ ms < speed /\ runs'[r].due - clock = MinSleep
       /\ op'.name = "setSpeed" => runs' = runs
       /\ op'.name = "resume" => clock >= runs[op'.run].due]_vars

C33_Witness ==
    /\ op.name = "setSpeed"
    /\ speed = 1
    /\ \E r \in RunIds : /\ runs[r].pc = "sleep"
                         /\ runs[r].due = startTime + 1
                         /\ clock < runs[r].due

\* C34: between two suspensions a for loop executes its body at most once
\* and a while loop at most 100 times, and a run that stop() reached while
\* it was suspended inside such a loop executes at most that many further
\* iterations when it resumes and then ends: it does not suspend again.
BodyCount(r) == Times(r, <<"x"," ","+","="," ","1">>)
Quota(code) == IF code = SketchForEver THEN 1 ELSE WhileYield
C34_LoopsEndOnStop ==
    [][\A r \in RunIds :
          /\ cur = r /\ cur' = 0
          /\ runs[r].pc = "stmt"
          /\ runs[r].src \in LoopSketches
          => /\ BodyCount(r)' - BodyCount(r) <= Quota(runs[r].src)
             /\ runs[r].susStop => runs'[r].pc = "done"]_vars

\* C35: a statement that has none of the recognized forms and names no
\* function of the sketch raises nothing and changes nothing: when a run
\* executes only such statements and the delay after them, the globals, the
\* local tables, the pins, the pending serial text and the running flags
\* are what they were, no serial or status event is emitted, and the run
\* has gone on to the delay and is suspended on it.
NoForm == {<<"r","e","t","u","r","n">>, <<"W","i","r","e",".","b","e","g","i","n","(",")">>, <<"f","o","o","(","k",")">>, <<"k">>, <<"v","a","l","u","e","O","f","(",")">>}
NewStmts(r) == SubSeq(runs'[r].trace, Len(runs[r].trace) + 1, Len(runs'[r].trace))
OnlyNoForm(r) ==
    /\ \E j \in 1..Len(NewStmts(r)) : NewStmts(r)[j] \in NoForm
    /\ \A j \in 1..Len(NewStmts(r)) : NewStmts(r)[j] \in NoForm \cup {<<"d","e","l","a","y","(","1",")">>}
C35_NoFormNoEffect ==
    [][\A r \in RunIds :
          /\ cur = r /\ cur' = 0
          /\ runs[r].pc = "stmt"
          /\ runs[r].src \in {SketchUnmatched, SketchInherited}
          /\ OnlyNoForm(r)
          => /\ variables' = variables
             /\ pins' = pins
             /\ serialBuffer' = serialBuffer
             /\ running' = running /\ parserRunning' = parserRunning
             /\ runs'[r].scopes = runs[r].scopes
             /\ out'.serial = <<>> /\ out'.status = <<>>
             /\ runs'[r].pc = "sleep"
             /\ NewStmts(r)[Len(NewStmts(r))] = <<"d","e","l","a","y","(","1",")">>]_vars


\* C36: reset() leaves idle as the last status emitted, and it stays the
\* last status through every later step up to the next call of start() or
\* stop(): in particular a run that reset() stopped emits no status when it
\* resumes and leaves.  (idle is the last status only at first, when no run
\* exists, and after reset().)
C36_IdleAfterReset ==
    [][/\ op'.name = "reset" => lastStatus' = "idle"
       /\ lastStatus = "idle" /\ op'.name \notin {"start", "stop", "reset"}
          => lastStatus' = "idle" /\ out'.status = <<>>]_vars


\* C37: the first serial event of a run carries only text of that run.  The
\* only serial event of a run of SketchFault is the error event of its
\* printf, and the run has printed "a" once before it: when the run is the
\* last one started and every run before it is over or still in the
\* suspension stop() found it in, the text of the event is the error
\* message, after the one "a" of the run if that is still pending,
\* whatever an earlier run left unflushed.
C37_NoTextOfEarlierRun ==
    [][/\ op'.name = "catch"
       /\ op'.run = nextRun - 1
       /\ \A q \in RunIds :
              q < op'.run => \/ runs[q].pc = "done"
                             \/ runs[q].pc \in {"sleep", "yield"} /\ runs[q].susStop
       => out'.serial[1].text \in {<<"a", ErrPrefix, ToFixedMsg>>,
                                   <<ErrPrefix, ToFixedMsg>>}]_vars


\* C38: within one run a later read of millis() is not below an earlier
\* one, whatever setSpeed calls come in between.  The only run ever started
\* runs SketchMillis, which stores one read in t and a later one in u: once
\* both are stored, u is at least t.
C38_MillisNeverDecreases ==
    \A r \in RunIds :
        /\ nextRun = 2 /\ Started(r)
        /\ runs[r].src = SketchMillis
        /\ Times(r, <<"t"," ","="," ","m","i","l","l","i","s","(",")">>) = 1 /\ Times(r, <<"u"," ","="," ","m","i","l","l","i","s","(",")">>) = 1
        => variables[<<"u">>].n >= variables[<<"t">>].n


\* C39: a pin of the table is connected exactly when a registered
\* peripheral lists it, and then to that peripheral's id and type.
C39_ConnectedIffListed ==
    \A pin \in PinIds :
        /\ pins[pin].connected # NoConn
           <=> \E j \in 1..Len(peripherals) : pin \in Listed(peripherals[j])
        /\ \A j \in 1..Len(peripherals) :
              pin \in Listed(peripherals[j]) /\ pins[pin].connected # NoConn
                  => pins[pin].connected = [componentId |-> peripherals[j].id,
                                            pinName |-> peripherals[j].type]
====
